---- MODULE Spec2Model ----
(***************************************************************************)
(* A model of the rdum step sequencer engine (src/src/sequencer.rs):       *)
(* the Context guarded by one mutex, the scheduler thread (play_next), the *)
(* dispatcher thread (run_command_loop), the controllers that send         *)
(* commands, and the audio sinks the tracks play on.                       *)
(*                                                                         *)
(* Every with_lock closure is one critical section.  The closure of a      *)
(* scheduler tick is taken in two steps (the trigger loop, then the choke  *)
(* loop and the MIDI clock) with the mutex held in between, so that the    *)
(* mutual exclusion of the tick and the dispatcher is decided by the       *)
(* mutex and not by the grain of the model.  A panic inside a closure      *)
(* keeps what the closure had already written and poisons the mutex:       *)
(* every later lock().unwrap() panics, so no thread enters again.          *)
(*                                                                         *)
(* Durations are nanoseconds.  Duration::from_secs_f32(2.5 / bpm) is       *)
(* modelled by the integer quotient of 2.5 s by bpm.  The content         *)
(* hash in a saved pattern's file name is modelled by the content itself.  *)
(***************************************************************************)
EXTENDS Integers, Sequences, FiniteSets, TLC

VARIABLES
    ctx,    \* the Context (struct Context), behind the mutex
    sinks,  \* the rodio sinks, by sink id: the queue of sounds of each
    seq,    \* the Sequencer's own fields and the scheduler thread's position
    chan,   \* the command channel (mpsc), oldest first
    mutex,  \* "free", "sched" (held by a tick) or "poisoned"
    files,  \* the patterns directory, in creation order
    ev,     \* history: what the last critical section did
    sent,   \* history: how many commands the controllers have sent
    state_rx \* the state channels (mpsc), one per Sender in ctx.state_tx_ch

vars == <<ctx, sinks, seq, chan, mutex, files, ev, sent, state_rx>>

----------------------------------------------------------------------------
(* Program constants *)

PPB == 96
DEFAULT_LEN == 8
DEFAULT_TEMPO == 120
MIDI_START == 250
MIDI_STOP == 252
MIDI_CLOCK == 248
HALF_NANOS_2_5_S == 1250000000
INIT_SLEEP == 41666666

(* Bounds of the model *)

MaxCmds == 2
MaxPatCmds == 3
MaxArgCmds == 2
MaxQueue == 1
MaxFileCmds == 3
MaxEditCmds == 2
MaxFifoCmds == 4
MaxFifoQueue == 3
MaxSoundCmds == 3
MaxLoadCmds == 3
MaxStateCmds == 2
MaxEndpoints == 2
MaxInbox == 2

----------------------------------------------------------------------------
(* Sequence helpers *)

Min(a, b) == IF a < b THEN a ELSE b

\* the function f over 1..n as a sequence value
Tuple(f) == f \o <<>>

Contains(s, x) == \E i \in 1..Len(s) : s[i] = x

Take(s, n) == SubSeq(s, 1, Min(n, Len(s)))

Zeros(n) == Tuple([i \in 1..n |-> 0])

RemoveAt(s, i) == SubSeq(s, 1, i - 1) \o SubSeq(s, i + 1, Len(s))

RECURSIVE Dedup(_)
Dedup(s) ==
    IF Len(s) <= 1 THEN s
    ELSE LET r == Dedup(Tail(s))
         IN  IF Head(s) = Head(r) THEN r ELSE <<Head(s)>> \o r


RECURSIVE Filter(_, _)
Filter(s, x) ==
    IF s = <<>> THEN <<>>
    ELSE (IF Head(s) # x THEN <<Head(s)>> ELSE <<>>) \o Filter(Tail(s), x)

----------------------------------------------------------------------------
(* Samples: the files of the samples directory that decode *)

ReadableSamples == {"kit/hat_open.wav", "kit/hat_closed.wav", "kick.wav"}

BufferedSample_new(fp) == fp \in ReadableSamples

TrackName(fp) ==
    CASE fp = "kit/hat_open.wav" -> "hat_open"
      [] fp = "kit/hat_closed.wav" -> "hat_closed"
      [] fp = "kick.wav" -> "kick"
      [] OTHER -> "missing"

----------------------------------------------------------------------------
(* Track *)

\* (mutant) a track of one slot whatever the length asked for
Track_new_one_slot(len, sample_path, sink) ==
    [slots |-> <<0>>, sample |-> sample_path, sample_path |-> sample_path,
     idx |-> 0, len |-> 1, sink |-> sink, name |-> TrackName(sample_path)]

Track_new(len, sample_path, sink) ==
    [slots |-> Zeros(len), sample |-> sample_path, sample_path |-> sample_path,
     idx |-> 0, len |-> len, sink |-> sink, name |-> TrackName(sample_path)]

Track_reset_slots(t) == [t EXCEPT !.slots = Zeros(Len(t.slots))]

\* (mutant) the playhead is left where it was
Track_set_len_keep_idx(t, len) ==
    IF len > t.len
    THEN [t EXCEPT !.slots = t.slots \o Zeros(len - t.len), !.len = len]
    ELSE [t EXCEPT !.slots = Take(t.slots, len), !.len = len]

\* Track::set_len for len >= 1 (len = 0 panics at idx % len, see Track_set_len_panicked)
Track_set_len(t, len) ==
    IF len > t.len
    THEN [t EXCEPT !.slots = t.slots \o Zeros(len - t.len), !.len = len]
    ELSE [t EXCEPT !.slots = Take(t.slots, len), !.idx = t.idx % len, !.len = len]

\* what Track::set_len(0) leaves behind when idx % 0 panics
Track_set_len_panicked(t) == [t EXCEPT !.slots = <<>>]

----------------------------------------------------------------------------
(* ChokeGrp and Pattern; track ids are 0-based as in the source *)

\* (mutant) the id of the asking track is not filtered out
ChokeGrp_get_choked_ids_with_self(g, track_id) ==
    IF ~Contains(g, track_id) THEN <<>> ELSE g

ChokeGrp_get_choked_ids(g, track_id) ==
    IF ~Contains(g, track_id) THEN <<>> ELSE Filter(g, track_id)

RECURSIVE ChokedIdsOfGroups(_, _)
ChokedIdsOfGroups(gs, track_id) ==
    IF gs = <<>> THEN <<>>
    ELSE (IF Contains(Head(gs), track_id)
          THEN ChokeGrp_get_choked_ids(Head(gs), track_id) ELSE <<>>)
         \o ChokedIdsOfGroups(Tail(gs), track_id)

Pattern_get_choked_ids(p, track_id) ==
    Dedup(ChokedIdsOfGroups(p.choke_grps, track_id))

Pattern_is_trk_choked(p, triggered_ids, track_id) ==
    \E k \in 1..Len(triggered_ids) :
        Contains(Pattern_get_choked_ids(p, triggered_ids[k]), track_id)

\* (mutant) the velocities of the clone are kept
Pattern_keep_velocities(p) == p

Pattern_zero_all_tracks(p) ==
    [p EXCEPT !.tracks = Tuple([i \in 1..Len(p.tracks) |-> Track_reset_slots(p.tracks[i])])]

Pattern_reset_playheads(p) ==
    [p EXCEPT !.tracks = Tuple([i \in 1..Len(p.tracks) |-> [p.tracks[i] EXCEPT !.idx = 0]])]

Pattern_set_len(p, len) ==
    [p EXCEPT !.tracks = Tuple([i \in 1..Len(p.tracks) |-> Track_set_len(p.tracks[i], len)])]

\* Pattern::set_len(0): the first track is truncated, then idx % 0 panics
Pattern_set_len_panicked(p) ==
    [p EXCEPT !.tracks[1] = Track_set_len_panicked(p.tracks[1])]

----------------------------------------------------------------------------
(* Context *)

\* 2.5 s / bpm in nanoseconds, from the half of 2.5 s to stay within 32 bits
PulseInterval(bpm) ==
    2 * (HALF_NANOS_2_5_S \div bpm) + (2 * (HALF_NANOS_2_5_S % bpm)) \div bpm

\* (mutant) the tempo is assigned and the pulse interval left as it was
Context_set_tempo_only(c, bpm) == [c EXCEPT !.tempo = bpm]

\* Context::set_tempo
Context_set_tempo(c, bpm) ==
    [c EXCEPT !.tempo = bpm, !.pulse_interval = PulseInterval(bpm)]

\* (mutant) every byte is sent twice
MidiSendTwice(c, byte) ==
    IF c.midi_conn THEN <<[k |-> "midi", t |-> byte], [k |-> "midi", t |-> byte]>> ELSE <<>>

\* (mutant) a byte is sent with or without a connection
MidiSendAlways(c, byte) == <<[k |-> "midi", t |-> byte]>>

\* the bytes a MIDI send puts on the wire: none without a connection
MidiSend(c, byte) == IF c.midi_conn THEN <<[k |-> "midi", t |-> byte]>> ELSE <<>>

NumPatterns(c) == Len(c.patterns)

ValidPattern(c, id) == id >= 0 /\ id < NumPatterns(c)

\* patterns[pattern_id]; the source's ids are 0-based
CurPattern(c) == c.patterns[c.pattern_id + 1]

NumTracks(c) == Len(CurPattern(c).tracks)

SetCurPattern(c, p) == [c EXCEPT !.patterns[c.pattern_id + 1] = p]

----------------------------------------------------------------------------
(* Sinks: a queue of sounds each; the head is the sound that is playing *)

Sound(sample, vel) == [sample |-> sample, vel |-> vel, fresh |-> TRUE]

\* history: a new critical section makes the sounds queued earlier "tails"
Aged(sk) ==
    Tuple([s \in DOMAIN sk |->
            Tuple([i \in 1..Len(sk[s]) |-> [sk[s][i] EXCEPT !.fresh = FALSE]])])

Sink_skip_one(q) == IF q = <<>> THEN q ELSE Tail(q)

\* (mutant) the oldest is skipped only when more than two are queued
append_sample_late_skip(q, sample, vel) ==
    LET q1 == Append(q, Sound(sample, vel))
    IN  IF Len(q1) > 2 THEN Tail(q1) ELSE q1

\* (mutant) the new sound queues behind what the sink holds
append_sample_only(q, sample, vel) == Append(q, Sound(sample, vel))

\* Sequencer::append_sample_to_sink
append_sample_to_sink(q, sample, vel) ==
    LET q1 == Append(q, Sound(sample, vel))
    IN  IF Len(q1) > 1 THEN Sink_skip_one(q1) ELSE q1

\* the sinks some track of some pattern holds (Arc<Sink>: a cloned pattern
\* shares the sinks of the pattern it was cloned from)
UsedSinks(c) ==
    UNION { {c.patterns[i].tracks[j].sink : j \in 1..Len(c.patterns[i].tracks)} :
            i \in 1..Len(c.patterns) }

\* a sink no track holds any more is dropped, which silences it
DropUnused(c, sk) ==
    Tuple([s \in DOMAIN sk |-> IF s \in UsedSinks(c) THEN sk[s] ELSE <<>>])

----------------------------------------------------------------------------
(* Commands (enum Command): t is the variant, a, b, c its arguments *)

Cmd(t, a, b, c, p) == [t |-> t, a |-> a, b |-> b, c |-> c, p |-> p]

Unspecified == Cmd("Unspecified", 0, 0, 0, "")

\* the values of enum Division
Divisions == {1, 2, 3, 4, 6, 8, 12, 16, 24, 32}

\* impl From<i64> for Division: `_ => Division::W`
Division_from(value) == IF value \in Divisions THEN value ELSE 1

\* proto_message_to_command for a SetDivision request that carries the
\* integer div_value; b keeps the integer of the request (history)
SetDivisionRequest(div_value) ==
    Cmd("SetDivision", Division_from(div_value), div_value, 0, "")

----------------------------------------------------------------------------
(* History record of a critical section *)

\* prev: the variant of the command applied before the one of this section
Event(op, log, panic) == [op |-> op, log |-> log, panic |-> panic, prev |-> "-"]

E(k, t) == [k |-> k, t |-> t]

----------------------------------------------------------------------------
(* The state after Sequencer::new and the setup the public API offers:     *)
(* add_track twice, TrackHandle::set_slots_vel, one choke group of the two *)
(* tracks, connect_midi or not, play() or not.                             *)

SetupPattern ==
    [tracks |-> <<
        [Track_new(DEFAULT_LEN, "kit/hat_open.wav", 1)
            EXCEPT !.slots = <<127, 0, 0, 0, 0, 0, 0, 0>>],
        [Track_new(DEFAULT_LEN, "kit/hat_closed.wav", 2)
            EXCEPT !.slots = <<127, 127, 0, 0, 0, 0, 0, 0>>] >>,
     choke_grps |-> << <<0, 1>> >>,
     division |-> 8,
     name |-> 1]

\* the state after the setup, with fl in the patterns directory
InitDir(fl) ==
    /\ \E playing \in BOOLEAN, midi \in BOOLEAN :
        ctx = [patterns |-> <<SetupPattern>>,
               pattern_id |-> 0,
               queued_pattern_id |-> 0,
               default_len |-> DEFAULT_LEN,
               tempo |-> DEFAULT_TEMPO,
               pulse_interval |-> PulseInterval(DEFAULT_TEMPO),
               playing |-> playing,
               last_cmd |-> Unspecified,
               midi_conn |-> midi]
    /\ sinks = << <<>>, <<>> >>
    /\ seq = [pulse_idx |-> 0, latency |-> 0, sleep_interval |-> INIT_SLEEP,
              pc |-> "read", playing |-> FALSE, triggered |-> <<>>, beat |-> FALSE]
    /\ chan = <<>>
    /\ mutex = "free"
    /\ files = fl
    /\ ev = Event("new", <<>>, FALSE)
    /\ sent = 0
    /\ state_rx = <<>>

Init == InitDir(<<>>)

----------------------------------------------------------------------------
(* ContextHandle::with_lock: lock().unwrap() waits for the mutex and panics *)
(* when it is poisoned                                                      *)

\* (mutant) a lock that does not exclude the tick
with_lock_shared == mutex # "poisoned"

with_lock == mutex = "free"

----------------------------------------------------------------------------
(* The state endpoints.  Channel i of state_rx is the mpsc channel whose    *)
(* Sender is ctx.state_tx_ch[i]: inbox holds what was sent and not yet      *)
(* received, open says whether the consumer still holds the Receiver.       *)

\* the TrackState of a track
TrackState(t) ==
    [slots |-> t.slots, name |-> t.name, idx |-> t.idx, len |-> t.len,
     sample_path |-> t.sample_path]

\* (mutant) a snapshot whose last_cmd is the one of the initial state
SeqStateStaleCmd(c, latency) ==
    [k |-> "SeqState",
     tempo |-> c.tempo,
     trks |-> Tuple([i \in DOMAIN CurPattern(c).tracks |->
                        TrackState(CurPattern(c).tracks[i])]),
     division |-> CurPattern(c).division,
     default_len |-> c.default_len,
     latency |-> latency,
     last_cmd |-> Unspecified,
     playing |-> c.playing,
     pattern_id |-> c.pattern_id,
     pattern_len |-> NumPatterns(c),
     pattern_name |-> CurPattern(c).name,
     queued_pattern_id |-> c.queued_pattern_id]

\* the SeqState tx_state builds from the Context and the scheduler's latency
SeqState(c, latency) ==
    [k |-> "SeqState",
     tempo |-> c.tempo,
     trks |-> Tuple([i \in DOMAIN CurPattern(c).tracks |->
                        TrackState(CurPattern(c).tracks[i])]),
     division |-> CurPattern(c).division,
     default_len |-> c.default_len,
     latency |-> latency,
     last_cmd |-> c.last_cmd,
     playing |-> c.playing,
     pattern_id |-> c.pattern_id,
     pattern_len |-> NumPatterns(c),
     pattern_name |-> CurPattern(c).name,
     queued_pattern_id |-> c.queued_pattern_id]

\* the samples directory, as refresh_sample_files lists it
SampleFiles == <<"hat_open.wav", "hat_closed.wav", "kick.wav">>

\* the FileState send_file_state builds; saved_patterns is the listing of
\* the patterns directory fl
FileState(file_type, fl) ==
    [k |-> "FileState", file_type |-> file_type,
     files |-> IF file_type = "pattern" THEN Tuple([i \in DOMAIN fl |-> fl[i].f_name])
               ELSE SampleFiles]

\* (mutant) the loop over the senders ends at the first failed send
BroadcastUntilClosed(rx, m) ==
    Tuple([i \in DOMAIN rx |->
            IF \A j \in 1..i : rx[j].open
            THEN [rx[i] EXCEPT !.inbox = Append(@, m)] ELSE rx[i]])

\* for tx in &ctx.state_tx_ch { let _ = tx.send(m) }: a send to a dropped
\* Receiver is an Err that is thrown away
Broadcast(rx, m) ==
    Tuple([i \in DOMAIN rx |->
            IF rx[i].open THEN [rx[i] EXCEPT !.inbox = Append(@, m)] ELSE rx[i]])

\* a broadcast finds room: no inbox of an open channel holds MaxInbox yet
Room(rx) == \A i \in DOMAIN rx : rx[i].open => Len(rx[i].inbox) < MaxInbox

\* Sequencer::get_state_rx, called while the Sequencer is being set up
GetStateRx ==
    /\ ev.op = "new"
    /\ with_lock
    /\ Len(state_rx) < MaxEndpoints
    /\ state_rx' = Append(state_rx, [open |-> TRUE, inbox |-> <<>>])
    /\ UNCHANGED <<ctx, sinks, seq, chan, mutex, files, ev, sent>>

\* a consumer's Receiver::recv: the oldest update leaves the channel
RxRecv ==
    /\ \E i \in DOMAIN state_rx :
        /\ state_rx[i].open
        /\ state_rx[i].inbox # <<>>
        /\ state_rx' = [state_rx EXCEPT ![i].inbox = Tail(@)]
    /\ UNCHANGED <<ctx, sinks, seq, chan, mutex, files, ev, sent>>

\* a consumer drops its Receiver, and what waited in the channel with it
RxDrop ==
    /\ \E i \in DOMAIN state_rx :
        /\ state_rx[i].open
        /\ state_rx' = [state_rx EXCEPT ![i] = [open |-> FALSE, inbox |-> <<>>]]
    /\ UNCHANGED <<ctx, sinks, seq, chan, mutex, files, ev, sent>>

----------------------------------------------------------------------------
(* The scheduler thread: Sequencer::play_next, one action per critical     *)
(* section                                                                 *)

\* (mutant) the stopped branch never taken
ReadPlayingNoReset ==
    /\ seq.pc = "read"
    /\ with_lock
    /\ seq' = [seq EXCEPT !.playing = ctx.playing,
                          !.pc = IF ctx.playing THEN "tick" ELSE "tx"]
    /\ ev' = Event("read", <<>>, FALSE)
    /\ UNCHANGED <<ctx, sinks, chan, mutex, files, sent, state_rx>>

\* let playing = self.ctx.with_lock(|ctx| { ctx.playing });
ReadPlaying ==
    /\ seq.pc = "read"
    /\ with_lock
    /\ seq' = [seq EXCEPT !.playing = ctx.playing,
                          !.pc = IF ctx.playing THEN "tick"
                                 ELSE IF seq.pulse_idx # 0 THEN "reset" ELSE "tx"]
    /\ ev' = Event("read", <<>>, FALSE)
    /\ UNCHANGED <<ctx, sinks, chan, mutex, files, sent, state_rx>>

\* (mutant) the switch taken on any pulse
SwitchDueAnyPulse(pulse_idx, c) == c.queued_pattern_id # c.pattern_id

\* the guard of the pattern switch
SwitchDue(pulse_idx, c) == pulse_idx = 0 /\ c.queued_pattern_id # c.pattern_id

\* (mutant) the pulse index taken modulo the division itself
BeatTickModDivision(pulse_idx, division) == pulse_idx % division = 0

\* a pulse is a beat tick
BeatTick(pulse_idx, division) == pulse_idx % (PPB \div division) = 0

\* (mutant) every track triggers, silent slot or not
RECURSIVE TriggerLoopAlways(_, _, _, _, _)
TriggerLoopAlways(tracks, sk, i, trig, log) ==
    IF i > Len(tracks)
    THEN [tracks |-> tracks, sinks |-> sk, triggered |-> trig, log |-> log]
    ELSE LET t    == tracks[i]
             vel  == t.slots[t.idx + 1]
             sk1  == [sk EXCEPT ![t.sink] = append_sample_to_sink(@, t.sample, vel)]
             t1   == [t EXCEPT !.idx = (t.idx + 1) % t.len]
         IN  TriggerLoopAlways([tracks EXCEPT ![i] = t1], sk1, i + 1,
                               Append(trig, i - 1), Append(log, E("enq", i - 1)))

\* (mutant) only a track that triggers advances
RECURSIVE TriggerLoopAdvanceOnFire(_, _, _, _, _)
TriggerLoopAdvanceOnFire(tracks, sk, i, trig, log) ==
    IF i > Len(tracks)
    THEN [tracks |-> tracks, sinks |-> sk, triggered |-> trig, log |-> log]
    ELSE LET t    == tracks[i]
             vel  == t.slots[t.idx + 1]
             fire == vel > 0
             sk1  == IF fire
                     THEN [sk EXCEPT ![t.sink] = append_sample_to_sink(@, t.sample, vel)]
                     ELSE sk
             t1   == IF fire THEN [t EXCEPT !.idx = (t.idx + 1) % t.len] ELSE t
         IN  TriggerLoopAdvanceOnFire([tracks EXCEPT ![i] = t1], sk1, i + 1,
                                      IF fire THEN Append(trig, i - 1) ELSE trig,
                                      IF fire THEN Append(log, E("enq", i - 1)) ELSE log)

\* (mutant) the velocity the tick looks at is the one of slot 0
RECURSIVE TriggerLoopSlot0(_, _, _, _, _)
TriggerLoopSlot0(tracks, sk, i, trig, log) ==
    IF i > Len(tracks)
    THEN [tracks |-> tracks, sinks |-> sk, triggered |-> trig, log |-> log]
    ELSE LET t    == tracks[i]
             vel  == t.slots[1]
             fire == vel > 0
             sk1  == IF fire
                     THEN [sk EXCEPT ![t.sink] = append_sample_to_sink(@, t.sample, vel)]
                     ELSE sk
             t1   == [t EXCEPT !.idx = (t.idx + 1) % t.len]
         IN  TriggerLoopSlot0([tracks EXCEPT ![i] = t1], sk1, i + 1,
                              IF fire THEN Append(trig, i - 1) ELSE trig,
                              IF fire THEN Append(log, E("enq", i - 1)) ELSE log)

\* the first loop of a beat tick: trigger and advance every track in id order
RECURSIVE TriggerLoop(_, _, _, _, _)
TriggerLoop(tracks, sk, i, trig, log) ==
    IF i > Len(tracks)
    THEN [tracks |-> tracks, sinks |-> sk, triggered |-> trig, log |-> log]
    ELSE LET t    == tracks[i]
             vel  == t.slots[t.idx + 1]
             fire == vel > 0
             sk1  == IF fire
                     THEN [sk EXCEPT ![t.sink] = append_sample_to_sink(@, t.sample, vel)]
                     ELSE sk
             t1   == [t EXCEPT !.idx = (t.idx + 1) % t.len]
         IN  TriggerLoop([tracks EXCEPT ![i] = t1], sk1, i + 1,
                         IF fire THEN Append(trig, i - 1) ELSE trig,
                         IF fire THEN Append(log, E("enq", i - 1)) ELSE log)

\* the second loop: skip_one on the sink of every choked track
RECURSIVE ChokeLoop(_, _, _, _, _)
ChokeLoop(pat, sk, trig, i, log) ==
    IF i > Len(pat.tracks)
    THEN [sinks |-> sk, log |-> log]
    ELSE IF Pattern_is_trk_choked(pat, trig, i - 1)
         THEN ChokeLoop(pat, [sk EXCEPT ![pat.tracks[i].sink] = Sink_skip_one(@)],
                        trig, i + 1, Append(log, E("choke", i - 1)))
         ELSE ChokeLoop(pat, sk, trig, i + 1, log)

\* the tick's closure up to the end of the trigger loop
TickBegin ==
    /\ seq.pc = "tick"
    /\ with_lock
    /\ LET p      == seq.pulse_idx
           switch == SwitchDue(p, ctx)
           c1     == IF switch THEN [ctx EXCEPT !.pattern_id = ctx.queued_pattern_id]
                     ELSE ctx
       IN  IF ~ValidPattern(c1, c1.pattern_id)
           THEN \* patterns[pattern_id] is out of bounds: panic
                /\ ctx' = c1
                /\ mutex' = "poisoned"
                /\ seq' = [seq EXCEPT !.pc = "dead"]
                /\ ev' = Event("tick", <<>>, TRUE)
                /\ UNCHANGED sinks
           ELSE LET c2   == IF switch
                            THEN SetCurPattern(c1, Pattern_reset_playheads(CurPattern(c1)))
                            ELSE c1
                    pat  == CurPattern(c2)
                    beat == BeatTick(p, pat.division)
                    r    == TriggerLoop(pat.tracks, Aged(sinks), 1, <<>>, <<>>)
                    sw   == IF switch THEN <<E("switch", c1.pattern_id)>> ELSE <<>>
                IN  /\ ctx' = IF beat THEN SetCurPattern(c2, [pat EXCEPT !.tracks = r.tracks])
                              ELSE c2
                    /\ sinks' = IF beat THEN r.sinks ELSE Aged(sinks)
                    /\ mutex' = "sched"
                    /\ seq' = [seq EXCEPT !.pc = "tickend", !.beat = beat,
                                          !.triggered = IF beat THEN r.triggered ELSE <<>>]
                    /\ ev' = Event("tick", sw \o (IF beat THEN <<E("beat", p)>> \o r.log ELSE <<>>),
                                   FALSE)
    /\ UNCHANGED <<chan, files, sent, state_rx>>

\* the rest of the closure: choke loop, MIDI clock, unlock; then pulse_idx
TickEnd ==
    /\ seq.pc = "tickend"
    /\ mutex = "sched"
    /\ LET r == IF seq.beat
                THEN ChokeLoop(CurPattern(ctx), sinks, seq.triggered, 1, <<>>)
                ELSE [sinks |-> sinks, log |-> <<>>]
       IN  /\ sinks' = r.sinks
           /\ ev' = [ev EXCEPT !.log = ev.log \o r.log \o MidiSend(ctx, MIDI_CLOCK)]
    /\ mutex' = "free"
    /\ seq' = [seq EXCEPT !.pc = "latency", !.pulse_idx = (seq.pulse_idx + 1) % PPB,
                          !.triggered = <<>>, !.beat = FALSE]
    /\ UNCHANGED <<ctx, chan, files, sent, state_rx>>

\* Sequencer::set_latency with the measured time t
SetLatency(t) ==
    /\ seq.pc = "latency"
    /\ with_lock
    /\ LET lat == (seq.latency + t) \div 2
       IN  seq' = [seq EXCEPT !.pc = "tx", !.latency = lat,
                       !.sleep_interval = ctx.pulse_interval - Min(ctx.pulse_interval, lat)]
    /\ ev' = Event("latency", <<>>, FALSE)
    /\ UNCHANGED <<ctx, sinks, chan, mutex, files, sent, state_rx>>

\* the branch taken when stopped with pulse_idx != 0
ResetPlayheads ==
    /\ seq.pc = "reset"
    /\ with_lock
    /\ IF ~ValidPattern(ctx, ctx.pattern_id)
       THEN /\ mutex' = "poisoned"
            /\ seq' = [seq EXCEPT !.pc = "dead", !.pulse_idx = 0]
            /\ ev' = Event("reset", <<>>, TRUE)
            /\ UNCHANGED ctx
       ELSE /\ ctx' = SetCurPattern(ctx, Pattern_reset_playheads(CurPattern(ctx)))
            /\ seq' = [seq EXCEPT !.pc = "tx", !.pulse_idx = 0]
            /\ ev' = Event("reset", <<>>, FALSE)
            /\ UNCHANGED mutex
    /\ UNCHANGED <<sinks, chan, files, sent, state_rx>>

\* Sequencer::tx_state, then the sleep
TxState ==
    /\ seq.pc = "tx"
    /\ with_lock
    /\ IF ~ValidPattern(ctx, ctx.pattern_id)
       THEN /\ mutex' = "poisoned"
            /\ seq' = [seq EXCEPT !.pc = "dead"]
            /\ ev' = Event("tx", <<>>, TRUE)
            /\ UNCHANGED state_rx
       ELSE /\ Room(state_rx)
            /\ state_rx' = Broadcast(state_rx, SeqState(ctx, seq.latency))
            /\ seq' = [seq EXCEPT !.pc = "read"]
            /\ ev' = Event("tx", <<>>, FALSE)
            /\ UNCHANGED mutex
    /\ UNCHANGED <<ctx, sinks, chan, files, sent>>

----------------------------------------------------------------------------
(* The audio thread: the sound at the head of a sink plays to its end *)

SinkFinish ==
    /\ \E s \in DOMAIN sinks :
        /\ sinks[s] # <<>>
        /\ sinks' = [sinks EXCEPT ![s] = Tail(@)]
    /\ UNCHANGED <<ctx, seq, chan, mutex, files, ev, sent, state_rx>>

----------------------------------------------------------------------------
(* The dispatcher thread: Sequencer::run_command_loop.  One action per     *)
(* match arm; each is the whole closure: try_recv, last_cmd, the arm.      *)

\* the command try_recv returns
Recv(t) == with_lock /\ chan # <<>> /\ Head(chan).t = t

\* ctx.last_cmd = cmd.clone()
Received == [ctx EXCEPT !.last_cmd = Head(chan)]

\* the closure returns: the mutex is released
Returns(c, sk, fl, log) ==
    /\ ctx' = c
    /\ sinks' = sk
    /\ files' = fl
    /\ mutex' = "free"
    /\ ev' = [Event("cmd", log, FALSE) EXCEPT !.prev = ctx.last_cmd.t]
    /\ chan' = Tail(chan)
    /\ UNCHANGED <<seq, sent, state_rx>>

\* the closure returns after send_file_state(file_type) with the patterns
\* directory fl
ReturnsFileState(c, fl, file_type) ==
    /\ Room(state_rx)
    /\ ctx' = c
    /\ files' = fl
    /\ mutex' = "free"
    /\ ev' = [Event("cmd", <<>>, FALSE) EXCEPT !.prev = ctx.last_cmd.t]
    /\ chan' = Tail(chan)
    /\ state_rx' = Broadcast(state_rx, FileState(file_type, fl))
    /\ UNCHANGED <<sinks, seq, sent>>

\* the closure panics: what it wrote stays, the mutex is poisoned
Panics(c) ==
    /\ ctx' = c
    /\ mutex' = "poisoned"
    /\ ev' = [Event("cmd", <<>>, TRUE) EXCEPT !.prev = ctx.last_cmd.t]
    /\ chan' = Tail(chan)
    /\ UNCHANGED <<sinks, files, seq, sent, state_rx>>

\* Command::SetTempo(bpm) => ctx.set_tempo(bpm); 2.5 / 0 is infinite and
\* Duration::from_secs_f32 panics on it, after tempo was assigned
CmdSetTempo ==
    /\ Recv("SetTempo")
    /\ LET bpm == Head(chan).a
       IN  IF bpm = 0
           THEN Panics([Received EXCEPT !.tempo = bpm])
           ELSE Returns(Context_set_tempo(Received, bpm), sinks, files, <<>>)

\* Command::PlaySound(trk_id, vel)
CmdPlaySound ==
    /\ Recv("PlaySound")
    /\ LET trk_id == Head(chan).a
           vel    == Head(chan).b
       IN  IF ~ValidPattern(ctx, ctx.pattern_id) \/ trk_id >= NumTracks(ctx)
           THEN Panics(Received)
           ELSE LET pat == CurPattern(ctx)
                    trk == pat.tracks[trk_id + 1]
                    sk1 == [Aged(sinks) EXCEPT
                               ![trk.sink] = append_sample_to_sink(@, trk.sample, vel)]
                    r   == ChokeLoop(pat, sk1, <<trk_id>>, 1, <<E("enq", trk_id)>>)
                IN  Returns(Received, r.sinks, files, r.log)

\* Context::enable_play
Context_enable_play(c) == [c EXCEPT !.playing = TRUE]

\* Context::disable_play
Context_disable_play(c) == [c EXCEPT !.playing = FALSE]

\* Command::PlaySequencer => ctx.enable_play()
CmdPlaySequencer ==
    /\ Recv("PlaySequencer")
    /\ Returns(Context_enable_play(Received), sinks, files, MidiSend(ctx, MIDI_START))

\* Command::StopSequencer => ctx.disable_play()
CmdStopSequencer ==
    /\ Recv("StopSequencer")
    /\ Returns(Context_disable_play(Received), sinks, files, MidiSend(ctx, MIDI_STOP))

\* Command::SetDivision(div)
CmdSetDivision ==
    /\ Recv("SetDivision")
    /\ IF ~ValidPattern(ctx, ctx.pattern_id)
       THEN Panics(Received)
       ELSE Returns(SetCurPattern(Received, [CurPattern(ctx) EXCEPT !.division = Head(chan).a]),
                    sinks, files, <<>>)

\* Command::SetSlotVelocity(trk, slot, vel)
CmdSetSlotVelocity ==
    /\ Recv("SetSlotVelocity")
    /\ LET trk  == Head(chan).a
           slot == Head(chan).b
           vel  == Head(chan).c
       IN  IF \/ ~ValidPattern(ctx, ctx.pattern_id)
              \/ trk >= NumTracks(ctx)
              \/ slot >= Len(CurPattern(ctx).tracks[trk + 1].slots)
           THEN Panics(Received)
           ELSE Returns([Received EXCEPT
                            !.patterns[ctx.pattern_id + 1].tracks[trk + 1].slots[slot + 1] = vel],
                        sinks, files, <<>>)

\* where Command::AddPattern puts the new pattern
AddPatternTarget(c, new_id) ==
    IF c.playing THEN [c EXCEPT !.queued_pattern_id = new_id]
    ELSE [c EXCEPT !.pattern_id = new_id]

\* Command::AddPattern
CmdAddPattern ==
    /\ Recv("AddPattern")
    /\ IF ~ValidPattern(ctx, ctx.pattern_id)
       THEN Panics(Received)
       ELSE LET new_id == Len(ctx.patterns)
                new    == [Pattern_zero_all_tracks(CurPattern(ctx)) EXCEPT !.name = new_id + 1]
                c1     == [Received EXCEPT !.patterns = Append(ctx.patterns, new)]
            IN  Returns(AddPatternTarget(c1, new_id), sinks, files, <<>>)

\* (mutant) pattern_id is left as it is
RemovePatternArmNoShift(c, idx) ==
    [c EXCEPT !.patterns = RemoveAt(c.patterns, idx + 1)]

\* (mutant) the pattern removed is the first one
RemovePatternArmFirst(c, idx) ==
    LET c1 == [c EXCEPT !.patterns = Tail(c.patterns)]
    IN  IF idx < c.pattern_id THEN [c1 EXCEPT !.pattern_id = c.pattern_id - 1] ELSE c1

\* the arm of Command::RemovePattern(idx) after patterns.remove(idx)
RemovePatternArm(c, idx) ==
    LET c1 == [c EXCEPT !.patterns = RemoveAt(c.patterns, idx + 1)]
    IN  IF idx < c.pattern_id THEN [c1 EXCEPT !.pattern_id = c.pattern_id - 1] ELSE c1

\* Command::RemovePattern(idx); Vec::remove panics when idx is out of bounds
CmdRemovePattern ==
    /\ Recv("RemovePattern")
    /\ LET idx == Head(chan).a
       IN  IF idx >= Len(ctx.patterns)
           THEN Panics(Received)
           ELSE LET c1 == RemovePatternArm(Received, idx)
                IN  Returns(c1, DropUnused(c1, sinks), files, <<>>)

\* the arm of Command::SelectPattern(idx)
SelectPatternArm(c, idx) ==
    IF ~c.playing THEN [c EXCEPT !.pattern_id = idx]
    ELSE [c EXCEPT !.queued_pattern_id = idx]

\* Command::SelectPattern(idx)
CmdSelectPattern ==
    /\ Recv("SelectPattern")
    /\ Returns(SelectPatternArm(Received, Head(chan).a), sinks, files, <<>>)

\* Command::SetPatternLength(len)
CmdSetPatternLength ==
    /\ Recv("SetPatternLength")
    /\ LET len == Head(chan).a
       IN  IF ~ValidPattern(ctx, ctx.pattern_id)
           THEN Panics(Received)
           ELSE IF len = 0 /\ NumTracks(ctx) > 0
           THEN Panics(SetCurPattern(Received, Pattern_set_len_panicked(CurPattern(ctx))))
           ELSE Returns(SetCurPattern(Received, Pattern_set_len(CurPattern(ctx), len)),
                        sinks, files, <<>>)

\* Command::AddTrack(sample_path): Pattern::add_track(..).unwrap()
CmdAddTrack ==
    /\ Recv("AddTrack")
    /\ LET sample_path == Head(chan).p
       IN  IF ~ValidPattern(ctx, ctx.pattern_id) \/ ~BufferedSample_new(sample_path)
           THEN Panics(Received)
           ELSE LET sink == Len(sinks) + 1
                    trk  == Track_new(ctx.default_len, sample_path, sink)
                IN  Returns([Received EXCEPT
                                !.patterns[ctx.pattern_id + 1].tracks = Append(@, trk)],
                            Append(sinks, <<>>), files, <<>>)

\* Command::SetTrackSample(trk_id, sample_path): set_track_sample(..).unwrap()
CmdSetTrackSample ==
    /\ Recv("SetTrackSample")
    /\ LET trk_id      == Head(chan).a
           sample_path == Head(chan).p
       IN  IF \/ ~ValidPattern(ctx, ctx.pattern_id)
              \/ trk_id >= NumTracks(ctx)
              \/ ~BufferedSample_new(sample_path)
           THEN Panics(Received)
           ELSE Returns([Received EXCEPT
                            !.patterns[ctx.pattern_id + 1].tracks[trk_id + 1].sample = sample_path,
                            !.patterns[ctx.pattern_id + 1].tracks[trk_id + 1].sample_path = sample_path],
                        sinks, files, <<>>)

\* the arms that change nothing of the Context but last_cmd: ListPatterns,
\* ListSamples (a FileState broadcast) and `_ => ()` (SetPattern,
\* SetTrackLength)
NoEffect == {"ListPatterns", "ListSamples", "SetPattern", "SetTrackLength", "Unspecified"}

CmdOther ==
    /\ with_lock /\ chan # <<>> /\ Head(chan).t \in NoEffect
    /\ IF Head(chan).t = "ListPatterns" THEN ReturnsFileState(Received, files, "pattern")
       ELSE IF Head(chan).t = "ListSamples" THEN ReturnsFileState(Received, files, "sample")
       ELSE Returns(Received, sinks, files, <<>>)

----------------------------------------------------------------------------
(* Persistence *)

\* the SavedPattern of a pattern
SavedPattern(p) ==
    [tracks |-> Tuple([i \in 1..Len(p.tracks) |->
                    [slots |-> p.tracks[i].slots, sample_path |-> p.tracks[i].sample_path]]),
     choke_grps |-> p.choke_grps,
     division |-> p.division]

\* serde of Division: the derive writes a unit variant as its name
DivisionName(d) ==
    CASE d = 1 -> "W" [] d = 2 -> "H" [] d = 3 -> "QD" [] d = 4 -> "Q" [] d = 6 -> "ED"
      [] d = 8 -> "E" [] d = 12 -> "SD" [] d = 16 -> "S" [] d = 24 -> "TD" [] d = 32 -> "T"

DivisionOf(n) ==
    CASE n = "W" -> 1 [] n = "H" -> 2 [] n = "QD" -> 3 [] n = "Q" -> 4 [] n = "ED" -> 6
      [] n = "E" -> 8 [] n = "SD" -> 12 [] n = "S" -> 16 [] n = "TD" -> 24 [] n = "T" -> 32

DivisionNames == {"W", "H", "QD", "Q", "ED", "E", "SD", "S", "TD", "T"}

\* serde_json::from_reader returns Ok: the text of the file is a SavedPattern
Parses(js) == js.division \in DivisionNames

\* serde_json::to_writer(file, &saved_pattern)
to_writer(sp) == [sp EXCEPT !.division = DivisionName(sp.division)]

\* serde_json::from_reader(file)
from_reader(js) == [js EXCEPT !.division = DivisionOf(js.division)]

\* the file name: the pattern's name and the hash of the content
FileName(p) == <<p.name, SavedPattern(p)>>

FileExists(fl, f_name) == \E i \in 1..Len(fl) : fl[i].f_name = f_name

\* Command::SavePattern => ctx.save_pattern(); create_new fails on a name
\* that exists, and the error is printed
CmdSavePattern ==
    /\ Recv("SavePattern")
    /\ IF ~ValidPattern(ctx, ctx.pattern_id)
       THEN Panics(Received)
       ELSE LET p == CurPattern(ctx)
            IN  IF FileExists(files, FileName(p))
                THEN Returns(Received, sinks, files, <<>>)
                ELSE ReturnsFileState(Received,
                                      Append(files, [f_name |-> FileName(p),
                                                     content |-> to_writer(SavedPattern(p))]),
                                      "pattern")

\* the tracks load_pattern builds: one per saved track whose sample decodes,
\* each on a sink of its own
RECURSIVE LoadTracks(_, _)
LoadTracks(saved, next_sink) ==
    IF saved = <<>> THEN <<>>
    ELSE IF BufferedSample_new(Head(saved).sample_path)
         THEN <<[Track_new(Len(Head(saved).slots), Head(saved).sample_path, next_sink)
                    EXCEPT !.slots = Head(saved).slots]>>
              \o LoadTracks(Tail(saved), next_sink + 1)
         ELSE LoadTracks(Tail(saved), next_sink)

\* (mutant) the pattern replaced is the first one
Context_load_pattern_first(c, content, next_sink) ==
    [c EXCEPT !.patterns[1] = [tracks |-> LoadTracks(content.tracks, next_sink),
                               choke_grps |-> content.choke_grps,
                               division |-> content.division,
                               name |-> CurPattern(c).name]]

\* (mutant) the division of the file is not taken
Context_load_pattern_keep_division(c, content, next_sink) ==
    SetCurPattern(c, [tracks |-> LoadTracks(content.tracks, next_sink),
                      choke_grps |-> content.choke_grps,
                      division |-> CurPattern(c).division,
                      name |-> CurPattern(c).name])

\* Context::load_pattern on the content of a file that was read and parsed
Context_load_pattern(c, content, next_sink) ==
    SetCurPattern(c, [tracks |-> LoadTracks(content.tracks, next_sink),
                      choke_grps |-> content.choke_grps,
                      division |-> content.division,
                      name |-> CurPattern(c).name])

\* Command::LoadPattern(fname); the file is named by its place in the listing
CmdLoadPattern ==
    /\ Recv("LoadPattern")
    /\ LET k == Head(chan).a
       IN  IF ~ValidPattern(ctx, ctx.pattern_id)
           THEN Panics(Received)
           ELSE IF k >= Len(files) \/ ~Parses(files[k + 1].content)
           THEN Returns(Received, sinks, files, <<>>)
           ELSE LET c1 == Context_load_pattern(Received, from_reader(files[k + 1].content),
                                                  Len(sinks) + 1)
                    n  == Len(CurPattern(c1).tracks)
                    sk == sinks \o Tuple([i \in 1..n |-> <<>>])
                IN  Returns(IF ctx.playing THEN Context_enable_play(c1) ELSE c1,
                            DropUnused(c1, sk), files,
                            IF ctx.playing THEN MidiSend(ctx, MIDI_START) ELSE <<>>)

----------------------------------------------------------------------------
(* The controllers: each holds a clone of the Sender *)

\* (mutant) a channel that hands out the newest command first
SendNewestFirst(cmds, max, cap) ==
    /\ sent < max
    /\ Len(chan) < cap
    /\ \E c \in cmds : chan' = <<c>> \o chan
    /\ sent' = sent + 1
    /\ UNCHANGED <<ctx, sinks, seq, mutex, files, ev, state_rx>>

\* Sender::send of one of cmds, while fewer than max were sent and fewer
\* than cap wait in the channel
SendUpTo(cmds, max, cap) ==
    /\ sent < max
    /\ Len(chan) < cap
    /\ \E c \in cmds : chan' = Append(chan, c)
    /\ sent' = sent + 1
    /\ UNCHANGED <<ctx, sinks, seq, mutex, files, ev, state_rx>>

Send(cmds, max) == SendUpTo(cmds, max, MaxQueue)

----------------------------------------------------------------------------
(* What the controllers send.  Ids and numbers are taken on both sides of  *)
(* what the Context holds; "missing.wav" does not decode.                  *)

\* transport and programming of the playing pattern
TickCommands ==
    { Cmd("PlaySequencer", 0, 0, 0, ""), Cmd("StopSequencer", 0, 0, 0, ""),
      Cmd("PlaySound", 0, 127, 0, ""), Cmd("PlaySound", 1, 90, 0, ""),
      Cmd("SetDivision", 4, 0, 0, ""),
      Cmd("SetSlotVelocity", 0, 1, 127, ""), Cmd("SetSlotVelocity", 1, 0, 0, ""),
      Cmd("SetPatternLength", 3, 0, 0, "") }

\* transport and the list of patterns
PatCommands ==
    { Cmd("PlaySequencer", 0, 0, 0, ""), Cmd("StopSequencer", 0, 0, 0, ""),
      Cmd("AddPattern", 0, 0, 0, ""),
      Cmd("RemovePattern", 0, 0, 0, ""), Cmd("RemovePattern", 1, 0, 0, ""),
      Cmd("SelectPattern", 0, 0, 0, ""), Cmd("SelectPattern", 1, 0, 0, "") }

\* arguments in and out of range, ids that exist and ids that do not
ArgCommands ==
    { Cmd("StopSequencer", 0, 0, 0, ""),
      Cmd("SetTempo", 0, 0, 0, ""), Cmd("SetTempo", 10, 0, 0, ""),
      Cmd("SetTempo", 90, 0, 0, ""),
      Cmd("PlaySound", 1, 127, 0, ""), Cmd("PlaySound", 5, 127, 0, ""),
      Cmd("SetSlotVelocity", 0, 1, 200, ""), Cmd("SetSlotVelocity", 0, 1, 127, ""),
      Cmd("SetSlotVelocity", 2, 0, 127, ""), Cmd("SetSlotVelocity", 0, 8, 127, ""),
      Cmd("RemovePattern", 3, 0, 0, ""),
      Cmd("SelectPattern", 0, 0, 0, ""), Cmd("SelectPattern", 5, 0, 0, ""),
      Cmd("SetPatternLength", 0, 0, 0, ""), Cmd("SetPatternLength", 9, 0, 0, ""),
      Cmd("AddTrack", 0, 0, 0, "kick.wav"), Cmd("AddTrack", 0, 0, 0, "missing.wav"),
      Cmd("SetTrackSample", 0, 0, 0, "kick.wav"),
      Cmd("SetTrackSample", 0, 0, 0, "missing.wav"),
      Cmd("SetTrackSample", 4, 0, 0, "kick.wav") }

\* the time one tick's processing takes, in nanoseconds
Elapsed == {0}

Scheduler ==
    \/ ReadPlaying
    \/ TickBegin
    \/ TickEnd
    \/ \E t \in Elapsed : SetLatency(t)
    \/ ResetPlayheads
    \/ TxState

Next ==
    \/ Send(TickCommands, MaxCmds)
    \/ CmdPlaySequencer
    \/ CmdStopSequencer
    \/ CmdPlaySound
    \/ CmdSetDivision
    \/ CmdSetSlotVelocity
    \/ CmdSetPatternLength
    \/ Scheduler
    \/ SinkFinish

Spec == Init /\ [][Next]_vars

\* the setup with a MIDI connection
InitMidi == Init /\ ctx.midi_conn

NextPat ==
    \/ Send(PatCommands, MaxPatCmds)
    \/ CmdPlaySequencer
    \/ CmdStopSequencer
    \/ CmdAddPattern
    \/ CmdRemovePattern
    \/ CmdSelectPattern
    \/ Scheduler
    \/ SinkFinish

SpecPat == InitMidi /\ [][NextPat]_vars

NextArgs ==
    \/ Send(ArgCommands, MaxArgCmds)
    \/ CmdStopSequencer
    \/ CmdSetTempo
    \/ CmdPlaySound
    \/ CmdSetSlotVelocity
    \/ CmdRemovePattern
    \/ CmdSelectPattern
    \/ CmdSetPatternLength
    \/ CmdAddTrack
    \/ CmdSetTrackSample
    \/ Scheduler
    \/ SinkFinish

SpecArgs == InitMidi /\ [][NextArgs]_vars

\* a controller that saves, then edits or moves the transport, then loads;
\* LoadPattern names a file by its place in the listing, 1 is no file
FileCommands ==
    IF sent = 0 THEN { Cmd("SavePattern", 0, 0, 0, "") }
    ELSE IF sent = 1
    THEN { Cmd("SetDivision", 4, 0, 0, ""), Cmd("SetSlotVelocity", 0, 1, 127, ""),
           Cmd("SetPatternLength", 3, 0, 0, ""), Cmd("AddTrack", 0, 0, 0, "kick.wav"),
           Cmd("SetTrackSample", 0, 0, 0, "kick.wav"),
           Cmd("PlaySequencer", 0, 0, 0, ""), Cmd("StopSequencer", 0, 0, 0, "") }
    ELSE { Cmd("LoadPattern", 0, 0, 0, ""), Cmd("LoadPattern", 1, 0, 0, ""),
           Cmd("SavePattern", 0, 0, 0, "") }

NextFiles ==
    \/ Send(FileCommands, MaxFileCmds)
    \/ CmdSavePattern
    \/ CmdLoadPattern
    \/ CmdSetDivision
    \/ CmdSetSlotVelocity
    \/ CmdSetPatternLength
    \/ CmdAddTrack
    \/ CmdSetTrackSample
    \/ CmdPlaySequencer
    \/ CmdStopSequencer
    \/ Scheduler
    \/ SinkFinish

SpecFiles == Init /\ [][NextFiles]_vars

\* a file of the patterns directory that is no SavedPattern: its division
\* is no variant of Division
ForeignFile ==
    [f_name |-> <<0, [tracks |-> <<>>, choke_grps |-> <<>>, division |-> 0]>>,
     content |-> [tracks |-> <<>>, choke_grps |-> <<>>, division |-> "?"]]

\* the file an earlier run saved of the pattern of the setup
SetupFile ==
    [f_name |-> FileName(SetupPattern), content |-> to_writer(SavedPattern(SetupPattern))]

\* the setup with a MIDI connection and the two files in the directory
InitLoad == InitDir(<<ForeignFile, SetupFile>>) /\ ctx.midi_conn

\* a controller that adds a pattern or edits the current one, then loads
\* file 0 (the foreign one), 1 (the saved one) or 2 (no file), or moves the
\* transport
LoadCommands ==
    IF sent = 0
    THEN { Cmd("AddPattern", 0, 0, 0, ""), Cmd("SetDivision", 4, 0, 0, ""),
           Cmd("SetPatternLength", 3, 0, 0, "") }
    ELSE { Cmd("LoadPattern", 0, 0, 0, ""), Cmd("LoadPattern", 1, 0, 0, ""),
           Cmd("LoadPattern", 2, 0, 0, ""),
           Cmd("PlaySequencer", 0, 0, 0, ""), Cmd("StopSequencer", 0, 0, 0, "") }

NextLoad ==
    \/ Send(LoadCommands, MaxLoadCmds)
    \/ CmdAddPattern
    \/ CmdSetDivision
    \/ CmdSetPatternLength
    \/ CmdLoadPattern
    \/ CmdPlaySequencer
    \/ CmdStopSequencer
    \/ Scheduler
    \/ SinkFinish

SpecLoad == InitLoad /\ [][NextLoad]_vars

\* a remote controller: it asks for a division by its integer (4 is one, 5
\* is none), stops the sequencer, asks for the listing; up to MaxEndpoints
\* consumers listen to the state
StateCommands ==
    { SetDivisionRequest(4), SetDivisionRequest(5),
      Cmd("StopSequencer", 0, 0, 0, ""), Cmd("ListPatterns", 0, 0, 0, "") }

NextState ==
    \/ GetStateRx
    \/ RxRecv
    \/ RxDrop
    \/ Send(StateCommands, MaxStateCmds)
    \/ CmdSetDivision
    \/ CmdStopSequencer
    \/ CmdOther
    \/ Scheduler

SpecState == InitMidi /\ [][NextState]_vars

\* programming of one pattern among several
EditCommands ==
    { Cmd("StopSequencer", 0, 0, 0, ""), Cmd("AddPattern", 0, 0, 0, ""),
      Cmd("SetPatternLength", 3, 0, 0, ""), Cmd("SetPatternLength", 9, 0, 0, ""),
      Cmd("SetTrackLength", 3, 0, 0, ""), Cmd("AddTrack", 0, 0, 0, "kick.wav"),
      Cmd("SetSlotVelocity", 0, 1, 127, ""), Cmd("SetSlotVelocity", 1, 1, 0, "") }

NextEdit ==
    \/ Send(EditCommands, MaxEditCmds)
    \/ CmdStopSequencer
    \/ CmdAddPattern
    \/ CmdSetPatternLength
    \/ CmdSetSlotVelocity
    \/ CmdAddTrack
    \/ CmdOther
    \/ Scheduler
    \/ SinkFinish

SpecEdit == InitMidi /\ [][NextEdit]_vars

\* a controller that adds a third track, outside the choke group of the
\* first two, and auditions tracks while the sequencer plays or is stopped
SoundCommands ==
    { Cmd("AddTrack", 0, 0, 0, "kick.wav"), Cmd("StopSequencer", 0, 0, 0, ""),
      Cmd("PlaySound", 1, 90, 0, ""), Cmd("PlaySound", 2, 127, 0, "") }

NextSound ==
    \/ Send(SoundCommands, MaxSoundCmds)
    \/ CmdAddTrack
    \/ CmdStopSequencer
    \/ CmdPlaySound
    \/ Scheduler
    \/ SinkFinish

SpecSound == InitMidi /\ [][NextSound]_vars

\* three controllers: one sends SetTempo, one SetSlotVelocity of track 0,
\* slot 1, one StopSequencer; a tempo or a velocity sent is a number that
\* grows with every send, so that the order of sending can be read off
\* what is applied
FifoCommands ==
    { Cmd("SetTempo", DEFAULT_TEMPO + 1 + sent, 0, 0, ""),
      Cmd("SetSlotVelocity", 0, 1, 1 + sent, ""),
      Cmd("StopSequencer", 0, 0, 0, "") }

NextFifo ==
    \/ SendUpTo(FifoCommands, MaxFifoCmds, MaxFifoQueue)
    \/ CmdStopSequencer
    \/ CmdSetTempo
    \/ CmdSetSlotVelocity
    \/ Scheduler
    \/ SinkFinish

SpecFifo == InitMidi /\ [][NextFifo]_vars

----------------------------------------------------------------------------
(* Vocabulary of the properties *)

\* this step is the dispatcher's closure receiving a command
DispatchStep == chan # <<>> /\ chan' = Tail(chan)

\* this step is the second half of the closure of a tick
TickEndStep == seq.pc = "tickend" /\ seq'.pc = "latency"

HasFresh(q) == \E i \in 1..Len(q) : q[i].fresh

HasEvent(log, k) == \E i \in 1..Len(log) : log[i].k = k

SharesGroup(p, a, b) ==
    \E g \in 1..Len(p.choke_grps) :
        Contains(p.choke_grps[g], a) /\ Contains(p.choke_grps[g], b)

Range(s) == {s[i] : i \in 1..Len(s)}

----------------------------------------------------------------------------
(* C1: in every reachable state there is at least one pattern and          *)
(* pattern_id is the index of one of them.                                 *)
C1_PatternIdInRange ==
    NumPatterns(ctx) >= 1 /\ ctx.pattern_id < NumPatterns(ctx)

(* C2: in every reachable state every track of every pattern has           *)
(* idx < len and len = slots.len().                                        *)
C2_TrackShape ==
    \A i \in 1..Len(ctx.patterns) : \A j \in 1..Len(ctx.patterns[i].tracks) :
        LET t == ctx.patterns[i].tracks[j]
        IN  t.idx < t.len /\ t.len = Len(t.slots)

(* C3: a tick that enqueues a sample or emits a MIDI clock byte runs only  *)
(* while Context.playing is true: after a StopSequencer was applied no     *)
(* trigger and no clock byte follows until a PlaySequencer is applied.     *)
C3_SilentWhileStopped ==
    (ev.op = "tick" /\ (HasEvent(ev.log, "enq") \/ HasEvent(ev.log, "midi")))
        => ctx.playing

(* C4: SelectPattern(B) or AddPattern applied while playing leaves         *)
(* pattern_id as it is and queues the pattern; no step of the scheduler    *)
(* changes pattern_id except the tick that runs with pulse_idx = 0 and a   *)
(* queued pattern, and that tick makes the queued pattern current and      *)
(* computes its triggers from playheads reset to 0.                        *)
C4_Step ==
    /\ (seq' # seq) =>
        IF seq.pc = "tick" /\ seq.pulse_idx = 0
           /\ ctx.queued_pattern_id # ctx.pattern_id
        THEN ValidPattern(ctx, ctx.queued_pattern_id) =>
                LET B   == ctx.patterns[ctx.queued_pattern_id + 1]
                    new == ctx'.patterns[ctx.queued_pattern_id + 1]
                IN  /\ ctx'.pattern_id = ctx.queued_pattern_id
                    /\ \A j \in 1..Len(B.tracks) :
                        /\ new.tracks[j].idx = 1 % B.tracks[j].len
                        /\ (j - 1 \in Range(seq'.triggered)) <=> (B.tracks[j].slots[1] > 0)
        ELSE ctx'.pattern_id = ctx.pattern_id
    /\ (DispatchStep /\ ctx.playing /\ ~ev'.panic) =>
        /\ Head(chan).t = "SelectPattern" =>
            ctx'.pattern_id = ctx.pattern_id /\ ctx'.queued_pattern_id = Head(chan).a
        /\ Head(chan).t = "AddPattern" =>
            ctx'.pattern_id = ctx.pattern_id /\ ctx'.queued_pattern_id = Len(ctx.patterns)

C4_QueuedSwitch == [][C4_Step]_vars

\* a tick has just made current the pattern the last command, a
\* SelectPattern, queued
C4_Switched ==
    /\ ev.op = "tick" /\ ~ev.panic
    /\ ctx.playing
    /\ HasEvent(ev.log, "switch")
    /\ ctx.last_cmd.t = "SelectPattern"
    /\ ctx.pattern_id = ctx.last_cmd.a

(* C5: after SelectPattern(id) with a valid id was applied while stopped,  *)
(* pattern_id is id and every track of that pattern has idx = 0 (looked at *)
(* when the scheduler is at the top of its loop with pulse_idx = 0, so     *)
(* that its reset of the stopped state, if one was due, is done).          *)
C5_SelectStoppedResets ==
    ( /\ ctx.last_cmd.t = "SelectPattern"
      /\ ~ctx.playing
      /\ ValidPattern(ctx, ctx.last_cmd.a)
      /\ chan = <<>>
      /\ seq.pc = "read" /\ seq.pulse_idx = 0 )
    => /\ ctx.pattern_id = ctx.last_cmd.a
       /\ \A j \in 1..Len(ctx.patterns[ctx.last_cmd.a + 1].tracks) :
            ctx.patterns[ctx.last_cmd.a + 1].tracks[j].idx = 0

(* C6: when two distinct tracks of one choke group both trigger on the     *)
(* same beat tick, the choke loop does not skip what the tick enqueued:    *)
(* the fresh sound of each is still in its sink at the end of the tick.    *)
C6_Step ==
    TickEndStep =>
        \A a \in Range(seq.triggered) : \A b \in Range(seq.triggered) :
            (a # b /\ SharesGroup(CurPattern(ctx), a, b)) =>
                LET s == CurPattern(ctx).tracks[a + 1].sink
                IN  HasFresh(sinks[s]) => HasFresh(sinks'[s])

C6_FreshSurvivesChoke == [][C6_Step]_vars

(* C7: within one beat tick every enqueue, in ascending track id, comes    *)
(* before every choke skip, and from the tick's first enqueue to its last  *)
(* choke skip no command is received or applied.                           *)
EnqBeforeChoke(log) ==
    \A i \in 1..Len(log) : \A j \in 1..Len(log) :
        (i < j /\ log[j].k = "enq") =>
            /\ log[i].k # "choke"
            /\ log[i].k = "enq" => log[i].t < log[j].t

C7_Step ==
    /\ mutex = "sched" => (ctx' = ctx /\ Len(chan') >= Len(chan))
    /\ TickEndStep => (ev.op = "tick" /\ ev'.op = "tick" /\ EnqBeforeChoke(ev'.log))

C7_TickAtomic == [][C7_Step]_vars

\* a beat tick with two enqueues and a choke skip has ended while a command
\* was waiting in the channel
C7_ContendedTick ==
    /\ seq.pc = "latency" /\ ev.op = "tick"
    /\ \E i \in 1..Len(ev.log) : ev.log[i] = E("enq", 0)
    /\ \E i \in 1..Len(ev.log) : ev.log[i] = E("enq", 1)
    /\ HasEvent(ev.log, "choke")
    /\ chan # <<>>

(* C8: a command whose id does not exist leaves the Context as it was (but *)
(* for last_cmd) and the mutex usable, so that the dispatcher and the      *)
(* scheduler go on.                                                        *)
InvalidId(c, x) ==
    \/ c.t \in {"SelectPattern", "RemovePattern"} /\ c.a >= NumPatterns(x)
    \/ /\ ValidPattern(x, x.pattern_id)
       /\ \/ c.t \in {"SetSlotVelocity", "PlaySound", "SetTrackSample"}
             /\ c.a >= NumTracks(x)
          \/ c.t = "SetSlotVelocity" /\ c.a < NumTracks(x)
             /\ c.b >= CurPattern(x).tracks[c.a + 1].len

C8_Step ==
    (DispatchStep /\ InvalidId(Head(chan), ctx)) =>
        /\ ctx' = [ctx EXCEPT !.last_cmd = Head(chan)]
        /\ mutex' = "free"

C8_InvalidIdIgnored == [][C8_Step]_vars

(* C9: AddTrack or SetTrackSample (of an existing track) with a sample     *)
(* path that cannot be read leaves the Context as it was (but for          *)
(* last_cmd) and the mutex usable.                                         *)
C9_Step ==
    ( /\ DispatchStep
      /\ ValidPattern(ctx, ctx.pattern_id)
      /\ Head(chan).p \notin ReadableSamples
      /\ \/ Head(chan).t = "AddTrack"
         \/ Head(chan).t = "SetTrackSample" /\ Head(chan).a < NumTracks(ctx) )
    => /\ ctx' = [ctx EXCEPT !.last_cmd = Head(chan)]
       /\ mutex' = "free"

C9_UnreadableIgnored == [][C9_Step]_vars

(* C10: in every reachable state tempo is in [20, 300] and every slot      *)
(* velocity is in [0, 127].                                                *)
C10_Ranges ==
    /\ ctx.tempo >= 20 /\ ctx.tempo <= 300
    /\ \A i \in 1..Len(ctx.patterns) : \A j \in 1..Len(ctx.patterns[i].tracks) :
        \A k \in 1..Len(ctx.patterns[i].tracks[j].slots) :
            ctx.patterns[i].tracks[j].slots[k] \in 0..127

(* C11: RemovePattern(id) applied when there is one pattern is refused:    *)
(* the patterns, pattern_id and queued_pattern_id are as before.           *)
C11_Step ==
    (DispatchStep /\ Head(chan).t = "RemovePattern" /\ NumPatterns(ctx) = 1) =>
        /\ ctx'.patterns = ctx.patterns
        /\ ctx'.pattern_id = ctx.pattern_id
        /\ ctx'.queued_pattern_id = ctx.queued_pattern_id

C11_LastPatternKept == [][C11_Step]_vars

(* C12: when an iteration of the scheduler has observed playing = false    *)
(* and has done its work (the reset of the stopped branch, or nothing      *)
(* when pulse_idx is 0), pulse_idx is 0 and every track of the current     *)
(* pattern has idx = 0.                                                    *)
C12_Step ==
    (seq.pc \in {"read", "reset"} /\ seq'.pc = "tx" /\ ~seq'.playing) =>
        /\ seq'.pulse_idx = 0
        /\ ValidPattern(ctx', ctx'.pattern_id) =>
            \A j \in 1..Len(CurPattern(ctx').tracks) : CurPattern(ctx').tracks[j].idx = 0

C12_StoppedIterationResets == [][C12_Step]_vars

(* C13: StopSequencer applied makes playing false, and an iteration of the *)
(* scheduler that starts while playing is false observes it and ends with  *)
(* pulse_idx = 0.                                                          *)
C13_Step ==
    /\ (DispatchStep /\ Head(chan).t = "StopSequencer") => ~ctx'.playing
    /\ (seq.pc = "read" /\ seq'.pc # "read" /\ ~ctx.playing) => ~seq'.playing
    /\ (seq.pc = "tx" /\ seq'.pc = "read" /\ ~seq.playing) => seq'.pulse_idx = 0

C13_StopResetsPulse == [][C13_Step]_vars

\* the last command applied is a StopSequencer and the scheduler has since
\* taken the stopped branch: pulse_idx was not 0 and is reset
C13_StoppedAndReset ==
    /\ ctx.last_cmd.t = "StopSequencer" /\ ~ctx.playing
    /\ ev.op = "reset" /\ ~ev.panic
    /\ seq.pc = "tx" /\ ~seq.playing /\ seq.pulse_idx = 0

(* C15: AddPattern appends one pattern and leaves the patterns before it   *)
(* as they are, and RemovePattern(new_id) applied next, new_id the index   *)
(* of the pattern just added, removes that one only: the list is what it   *)
(* was before the AddPattern, playing or stopped.                          *)
C15_Step ==
    /\ (DispatchStep /\ Head(chan).t = "AddPattern" /\ ~ev'.panic) =>
        /\ Len(ctx'.patterns) = Len(ctx.patterns) + 1
        /\ SubSeq(ctx'.patterns, 1, Len(ctx.patterns)) = ctx.patterns
    /\ ( /\ DispatchStep /\ Head(chan).t = "RemovePattern"
         /\ ctx.last_cmd.t = "AddPattern"
         /\ Head(chan).a = Len(ctx.patterns) - 1 ) =>
        /\ ~ev'.panic
        /\ ctx'.patterns = SubSeq(ctx.patterns, 1, Len(ctx.patterns) - 1)

C15_AddThenRemove == [][C15_Step]_vars

\* RemovePattern(new_id) has been applied right after an AddPattern
C15_AddedAndRemoved ==
    /\ ev.op = "cmd" /\ ~ev.panic /\ ev.prev = "AddPattern"
    /\ ctx.last_cmd.t = "RemovePattern"
    /\ ctx.last_cmd.a = Len(ctx.patterns)

(* C14: SavePattern writes a file, and LoadPattern of that file, whatever  *)
(* was done to the current pattern in between, makes the current pattern   *)
(* have exactly the slot velocities, track lengths, sample paths, choke    *)
(* groups and division it had when it was saved, and keeps its name.  (The *)
(* hash in the file name stands for the content that was hashed.)          *)
C14_Step ==
    /\ (DispatchStep /\ Head(chan).t = "SavePattern" /\ files' # files) =>
        LET f == files'[Len(files')]
            p == CurPattern(ctx)
        IN  /\ files' = Append(files, f)
            /\ f.f_name = <<p.name, SavedPattern(p)>>
            /\ \A j \in 1..Len(p.tracks) : p.tracks[j].len = Len(p.tracks[j].slots)
    /\ ( /\ DispatchStep /\ Head(chan).t = "LoadPattern" /\ ~ev'.panic
         /\ Head(chan).a < Len(files)
         /\ \A j \in 1..Len(files[Head(chan).a + 1].f_name[2].tracks) :
                files[Head(chan).a + 1].f_name[2].tracks[j].sample_path \in ReadableSamples )
       => LET saved == files[Head(chan).a + 1].f_name[2]
              p     == CurPattern(ctx')
          IN  /\ ctx'.pattern_id = ctx.pattern_id
              /\ SavedPattern(p) = saved
              /\ \A j \in 1..Len(p.tracks) : p.tracks[j].len = Len(saved.tracks[j].slots)
              /\ p.name = CurPattern(ctx).name

C14_SaveLoadRoundTrip == [][C14_Step]_vars

\* the file saved first has been loaded right after an edit of the pattern
C14_LoadedAfterEdit ==
    /\ ev.op = "cmd" /\ ~ev.panic
    /\ ev.prev \in {"SetDivision", "SetSlotVelocity", "SetPatternLength",
                    "AddTrack", "SetTrackSample"}
    /\ ctx.last_cmd = Cmd("LoadPattern", 0, 0, 0, "")
    /\ files # <<>>
    /\ SavedPattern(CurPattern(ctx)) = files[1].f_name[2]

(* C18: with a MIDI connection 0xFA is sent exactly by the application of  *)
(* PlaySequencer and by a LoadPattern that succeeds while playing, 0xFC    *)
(* exactly by the application of StopSequencer; PlaySequencer sets playing *)
(* and StopSequencer clears it, pattern_id, the patterns and tempo staying *)
(* as they are; with no connection no byte is sent at all.                 *)
Sends(log, byte) == \E i \in 1..Len(log) : log[i] = E("midi", byte)

C18_Step ==
    /\ DispatchStep =>
        LET c == Head(chan)
            loaded == /\ c.t = "LoadPattern" /\ ValidPattern(ctx, ctx.pattern_id)
                      /\ c.a < Len(files)
        IN  /\ Sends(ev'.log, MIDI_START) <=>
                (ctx.midi_conn /\ (c.t = "PlaySequencer" \/ (loaded /\ ctx.playing)))
            /\ Sends(ev'.log, MIDI_STOP) <=> (ctx.midi_conn /\ c.t = "StopSequencer")
            /\ c.t \in {"PlaySequencer", "StopSequencer"} =>
                /\ ctx'.playing = (c.t = "PlaySequencer")
                /\ ctx'.pattern_id = ctx.pattern_id
                /\ ctx'.patterns = ctx.patterns
                /\ ctx'.tempo = ctx.tempo
    /\ (~DispatchStep /\ ev' # ev) =>
        (~Sends(ev'.log, MIDI_START) /\ ~Sends(ev'.log, MIDI_STOP))
    /\ ~ctx.midi_conn => (ev' = ev \/ ~HasEvent(ev'.log, "midi"))

Resized(t, u, n) ==
    /\ u.len = n /\ Len(u.slots) = n
    /\ \A k \in 1..n : u.slots[k] = IF k <= t.len THEN t.slots[k] ELSE 0
    /\ u.idx = IF n < t.len THEN t.idx % n ELSE t.idx
    /\ u.idx < n
    /\ u.sample_path = t.sample_path /\ u.sink = t.sink /\ u.name = t.name

(* C16: SetTrackLength(n) resizes one track of the current pattern to n    *)
(* (pad with velocity 0, or truncate with idx mod n) and leaves every      *)
(* other track unchanged.                                                  *)
C16_Step ==
    ( /\ DispatchStep /\ Head(chan).t = "SetTrackLength" /\ Head(chan).a >= 1
      /\ ValidPattern(ctx, ctx.pattern_id) /\ NumTracks(ctx) >= 1 )
    => \E j \in 1..NumTracks(ctx) :
        /\ Resized(CurPattern(ctx).tracks[j], CurPattern(ctx').tracks[j], Head(chan).a)
        /\ \A i \in 1..NumTracks(ctx) :
            i # j => CurPattern(ctx').tracks[i] = CurPattern(ctx).tracks[i]

C16_TrackResized == [][C16_Step]_vars

(* C17: SetPatternLength(n), n >= 1, resizes every track of the current    *)
(* pattern to n (pad with velocity 0, or truncate with idx mod n) and      *)
(* leaves the other patterns, pattern_id, tempo and playing unchanged.     *)
C17_Step ==
    ( /\ DispatchStep /\ Head(chan).t = "SetPatternLength" /\ Head(chan).a >= 1
      /\ ValidPattern(ctx, ctx.pattern_id) )
    => /\ ~ev'.panic
       /\ Len(CurPattern(ctx').tracks) = NumTracks(ctx)
       /\ \A j \in 1..NumTracks(ctx) :
            Resized(CurPattern(ctx).tracks[j], CurPattern(ctx').tracks[j], Head(chan).a)
       /\ Len(ctx'.patterns) = Len(ctx.patterns)
       /\ \A i \in 1..Len(ctx.patterns) :
            i # ctx.pattern_id + 1 => ctx'.patterns[i] = ctx.patterns[i]
       /\ ctx'.pattern_id = ctx.pattern_id
       /\ ctx'.tempo = ctx.tempo
       /\ ctx'.playing = ctx.playing

C17_PatternResized == [][C17_Step]_vars

\* SetPatternLength(3) has been applied to one of two patterns, the other
\* keeps its length, and a playhead of the truncated one is not on slot 0
C17_TruncatedWithWrap ==
    /\ ev.op = "cmd" /\ ~ev.panic
    /\ ctx.last_cmd = Cmd("SetPatternLength", 3, 0, 0, "")
    /\ Len(ctx.patterns) = 2
    /\ \E j \in 1..NumTracks(ctx) :
        CurPattern(ctx).tracks[j].len = 3 /\ CurPattern(ctx).tracks[j].idx # 0
    /\ \E i \in 1..2 : ctx.patterns[i].tracks[1].len = DEFAULT_LEN

(* C20: SetSlotVelocity(track, slot, v) with ids that exist changes that   *)
(* slot of the current pattern and nothing else (but last_cmd), and a beat *)
(* tick triggers a track iff the velocity under its playhead, as the       *)
(* Context holds it when the tick's closure begins, is above 0.            *)
C20_Step ==
    /\ ( /\ DispatchStep /\ Head(chan).t = "SetSlotVelocity"
         /\ ValidPattern(ctx, ctx.pattern_id)
         /\ Head(chan).a < NumTracks(ctx)
         /\ Head(chan).b < CurPattern(ctx).tracks[Head(chan).a + 1].len )
       => /\ ctx' = [ctx EXCEPT
                        !.last_cmd = Head(chan),
                        !.patterns[ctx.pattern_id + 1].tracks[Head(chan).a + 1]
                            .slots[Head(chan).b + 1] = Head(chan).c]
          /\ seq' = seq /\ sinks' = sinks /\ mutex' = mutex
    /\ (seq.pc = "tick" /\ seq'.pc = "tickend") =>
        LET switched == ctx'.pattern_id # ctx.pattern_id
            pat      == ctx.patterns[ctx'.pattern_id + 1]
        IN  IF seq'.beat
            THEN \A j \in 1..Len(pat.tracks) :
                    (j - 1 \in Range(seq'.triggered)) <=>
                        (pat.tracks[j].slots[(IF switched THEN 0 ELSE pat.tracks[j].idx) + 1] > 0)
            ELSE seq'.triggered = <<>>

C20_SlotProgrammed == [][C20_Step]_vars

\* SetSlotVelocity(0, 1, 127) was the last command applied and the beat
\* tick that has just run with the playhead of track 0 on slot 1 has
\* triggered track 0
C20_ProgrammedSlotTriggers ==
    /\ seq.pc = "tickend" /\ ev.op = "tick" /\ seq.beat
    /\ ctx.last_cmd = Cmd("SetSlotVelocity", 0, 1, 127, "")
    /\ CurPattern(ctx).tracks[1].idx = 2
    /\ 0 \in Range(seq.triggered)

(* C19: the dispatcher applies one command per critical section, the      *)
(* oldest in the channel, so that the commands one controller sent are     *)
(* applied in the order it sent them, whatever the other controllers and   *)
(* the scheduler do.  (In SpecFifo the tempo or velocity a command carries *)
(* is its rank among the sends.)                                           *)
Number(c) == IF c.t = "SetTempo" THEN c.a ELSE c.c

C19_Step ==
    /\ (ctx'.last_cmd # ctx.last_cmd \/ Len(chan') < Len(chan)) =>
        /\ chan # <<>>
        /\ Len(chan') = Len(chan) - 1
        /\ ctx'.last_cmd = Head(chan)
        /\ Head(chan).t = "SetTempo" =>
            (Head(chan).a > ctx.tempo /\ ctx'.tempo = Head(chan).a)
        /\ Head(chan).t = "SetSlotVelocity" =>
            /\ Head(chan).c > CurPattern(ctx).tracks[1].slots[2]
            /\ CurPattern(ctx').tracks[1].slots[2] = Head(chan).c
        /\ \A i \in 1..Len(chan') :
            (chan'[i].t = Head(chan).t /\ Head(chan).t # "StopSequencer")
                => Number(chan'[i]) > Number(Head(chan))
    /\ \A i \in 1..Len(chan') : \A j \in 1..Len(chan') :
        (i < j /\ chan'[i].t = chan'[j].t /\ chan'[i].t # "StopSequencer")
            => Number(chan'[i]) < Number(chan'[j])

C19_FifoPerController == [][C19_Step]_vars

\* two commands of the SetTempo controller have been applied one after the
\* other while commands of both controllers were waiting behind them
C19_AppliedInOrder ==
    /\ ev.op = "cmd" /\ ev.prev = "SetTempo"
    /\ ctx.last_cmd.t = "SetTempo" /\ ctx.tempo = ctx.last_cmd.a
    /\ Len(chan) = 2
    /\ {chan[1].t, chan[2].t} = {"SetTempo", "SetSlotVelocity"}

----------------------------------------------------------------------------
\* a dispatcher step that applies AddPattern while pattern_id is valid
C21_Step ==
    /\ DispatchStep
    /\ Head(chan).t = "AddPattern"
    /\ ValidPattern(ctx, ctx.pattern_id)

\* C21: AddPattern appends one pattern with the number of tracks, the
\* per-track lengths, the sample paths, the choke groups and the division of
\* the current pattern and with every slot velocity 0; every pattern that
\* existed, the current one and its velocities included, is unchanged and
\* keeps its index.
C21_AddPatternClones ==
    [][C21_Step =>
        LET n   == Len(ctx.patterns)
            cur == CurPattern(ctx)
            new == ctx'.patterns[n + 1]
        IN  /\ Len(ctx'.patterns) = n + 1
            /\ \A i \in 1..n : ctx'.patterns[i] = ctx.patterns[i]
            /\ Len(new.tracks) = Len(cur.tracks)
            /\ \A i \in 1..Len(cur.tracks) :
                /\ new.tracks[i].len = cur.tracks[i].len
                /\ Len(new.tracks[i].slots) = cur.tracks[i].len
                /\ new.tracks[i].sample_path = cur.tracks[i].sample_path
                /\ \A k \in 1..Len(new.tracks[i].slots) : new.tracks[i].slots[k] = 0
            /\ new.choke_grps = cur.choke_grps
            /\ new.division = cur.division]_vars

\* AddPattern was applied right after SetPatternLength(3) to a pattern that
\* holds a non-zero velocity: the clone has two tracks of length 3
C21_ClonedAfterResize ==
    /\ ev.op = "cmd" /\ ~ev.panic
    /\ ctx.last_cmd.t = "AddPattern"
    /\ ev.prev = "SetPatternLength"
    /\ Len(ctx.patterns) = 2
    /\ ctx.patterns[1].tracks[1].slots[1] > 0
    /\ Len(ctx.patterns[2].tracks) = 2
    /\ ctx.patterns[2].tracks[1].len = 3

----------------------------------------------------------------------------
\* a dispatcher step that applies AddPattern, or SelectPattern of a pattern
\* that exists, while playing is false
C22_Step ==
    /\ DispatchStep
    /\ ~ctx.playing
    /\ ValidPattern(ctx, ctx.pattern_id)
    /\ \/ Head(chan).t = "AddPattern"
       \/ Head(chan).t = "SelectPattern" /\ ValidPattern(ctx, Head(chan).a)

\* C22: SelectPattern(id) or AddPattern applied while playing is false
\* leaves no pattern queued: queued_pattern_id = pattern_id afterwards (so
\* that the first tick at pulse_idx = 0 after a later PlaySequencer does not
\* switch away from the pattern selected while stopped).
C22_NothingQueuedWhenStopped ==
    [][C22_Step => ctx'.queued_pattern_id = ctx'.pattern_id]_vars

----------------------------------------------------------------------------
\* a dispatcher step that applies PlaySound to a track that exists
C23_Step ==
    /\ DispatchStep
    /\ Head(chan).t = "PlaySound"
    /\ ValidPattern(ctx, ctx.pattern_id)
    /\ Head(chan).a < NumTracks(ctx)

\* C23: PlaySound(track_id, velocity) with a valid track_id, playing or
\* stopped, leaves on the track's sink the new sound alone (newest wins);
\* every other track sharing a choke group with track_id has the oldest
\* sound of its sink skipped, a track sharing none keeps its sink, the
\* track's own fresh sound is not skipped; every idx, every slot velocity
\* and pulse_idx are unchanged.
C23_PlaySoundFrame ==
    [][C23_Step =>
        LET pat  == CurPattern(ctx)
            id   == Head(chan).a
            trk  == pat.tracks[id + 1]
            aged == Aged(sinks)
        IN  /\ sinks'[trk.sink] = <<Sound(trk.sample, Head(chan).b)>>
            /\ \A j \in 1..Len(pat.tracks) :
                  j # id + 1 =>
                    sinks'[pat.tracks[j].sink] =
                        IF SharesGroup(pat, id, j - 1)
                        THEN Sink_skip_one(aged[pat.tracks[j].sink])
                        ELSE aged[pat.tracks[j].sink]
            /\ ctx' = [ctx EXCEPT !.last_cmd = Head(chan)]
            /\ seq' = seq]_vars

\* PlaySound(1) was applied while the sink of track 2, which is in no choke
\* group, held a sound: that sound is still there, and track 1's sink holds
\* the fresh sound
C23_AuditionedBesideKick ==
    /\ ev.op = "cmd" /\ ~ev.panic
    /\ ctx.last_cmd = Cmd("PlaySound", 1, 90, 0, "")
    /\ ev.prev = "PlaySound"
    /\ NumTracks(ctx) = 3
    /\ sinks[3] # <<>>
    /\ sinks[2] = <<Sound("kit/hat_closed.wav", 90)>>

----------------------------------------------------------------------------
\* the first half of the closure of a tick, run to its end
C30_Step == seq.pc = "tick" /\ seq'.pc = "tickend"

\* C30: a pulse executed while playing is a beat tick iff
\* pulse_idx mod (96 / division) = 0, and the tick's closure is followed by
\* pulse_idx + 1 (mod 96); so among the 96 pulses of a bar played with the
\* division d of that pulse exactly d are beat ticks, and they are the
\* multiples of 96 / d.
C30_BeatTicks ==
    [][ /\ C30_Step =>
            LET d == CurPattern(ctx').division
                beats == {p \in 0..(PPB - 1) : p % (PPB \div d) = 0}
            IN  /\ seq'.beat <=> (seq.pulse_idx % (PPB \div d) = 0)
                /\ seq'.pulse_idx = seq.pulse_idx
                /\ Cardinality(beats) = d
                /\ beats = {k * (PPB \div d) : k \in 0..(d - 1)}
        /\ TickEndStep => seq'.pulse_idx = (seq.pulse_idx + 1) % PPB ]_vars

\* with division 4 the tick at pulse 24 was a beat tick
C30_SecondQuarter ==
    /\ seq.pc = "tickend" /\ seq.beat
    /\ seq.pulse_idx = 24
    /\ CurPattern(ctx).division = 4

----------------------------------------------------------------------------
\* q nanoseconds is 2.5 s / t = 60 s / (24 t) rounded down: with q = 2h + r
\* the remainder 2.5e9 - q t = 2 (1.25e9 - h t) - r t lies in [0, t)
C28_IsPulseOf(q, t) ==
    LET h == q \div 2
        r == q % 2
        X == HALF_NANOS_2_5_S - h * t
        D == 2 * X - r * t
    IN  /\ t > 0
        /\ h <= HALF_NANOS_2_5_S \div t
        /\ X <= t
        /\ D >= 0 /\ D < t

\* a dispatcher step that applies SetTempo(x) right after SetTempo(x)
C28_Step ==
    /\ DispatchStep
    /\ Head(chan).t = "SetTempo"
    /\ ctx.last_cmd = Head(chan)

\* C28: whenever the Context can be locked (no critical section is open and
\* none has panicked) pulse_interval is 60 s / (24 tempo) for the current
\* tempo, to the nanosecond below; SetTempo(x) applied right after
\* SetTempo(x) leaves tempo and pulse_interval as they were.
C28_PulseInterval ==
    /\ [](mutex = "free" => C28_IsPulseOf(ctx.pulse_interval, ctx.tempo))
    /\ [][C28_Step => /\ ctx'.tempo = ctx.tempo
                      /\ ctx'.pulse_interval = ctx.pulse_interval]_vars

\* SetTempo(90) was applied twice in a row: the pulse lasts 27 777 777 ns
C28_TempoSetTwice ==
    /\ ev.op = "cmd" /\ ~ev.panic
    /\ ev.prev = "SetTempo"
    /\ ctx.last_cmd = Cmd("SetTempo", 90, 0, 0, "")
    /\ ctx.tempo = 90
    /\ ctx.pulse_interval = 27777777

----------------------------------------------------------------------------
\* a dispatcher step that applies AddTrack with a readable sample
C29_Step ==
    /\ DispatchStep
    /\ Head(chan).t = "AddTrack"
    /\ ValidPattern(ctx, ctx.pattern_id)
    /\ Head(chan).p \in ReadableSamples

\* C29: AddTrack(sample_path) with a readable sample appends exactly one
\* track to the current pattern, at index = the previous track count, with
\* default_len slots all of velocity 0 and idx 0; the existing tracks (ids,
\* slots, playheads) and all other patterns are unchanged.
C29_TrackAppended ==
    [][C29_Step =>
        LET cur == CurPattern(ctx)
            n   == Len(cur.tracks)
            new == ctx'.patterns[ctx.pattern_id + 1]
            trk == new.tracks[n + 1]
        IN  /\ ctx'.pattern_id = ctx.pattern_id
            /\ Len(ctx'.patterns) = Len(ctx.patterns)
            /\ \A i \in 1..Len(ctx.patterns) :
                  i # ctx.pattern_id + 1 => ctx'.patterns[i] = ctx.patterns[i]
            /\ Len(new.tracks) = n + 1
            /\ \A j \in 1..n : new.tracks[j] = cur.tracks[j]
            /\ trk.sample_path = Head(chan).p
            /\ trk.len = ctx.default_len
            /\ Len(trk.slots) = ctx.default_len
            /\ \A k \in 1..Len(trk.slots) : trk.slots[k] = 0
            /\ trk.idx = 0]_vars

\* AddTrack was applied while playing, right after an AddPattern that queued
\* the clone: the current pattern, a playhead of which stands away from 0,
\* has three tracks and the clone still two
C29_AddedBesideClone ==
    /\ ev.op = "cmd" /\ ~ev.panic
    /\ ctx.last_cmd.t = "AddTrack"
    /\ ev.prev = "AddPattern"
    /\ ctx.pattern_id = 0
    /\ Len(ctx.patterns[1].tracks) = 3
    /\ Len(ctx.patterns[2].tracks) = 2
    /\ ctx.patterns[1].tracks[1].idx > 0

----------------------------------------------------------------------------
\* a dispatcher step that applies LoadPattern while pattern_id is valid
C25_Step ==
    /\ DispatchStep
    /\ Head(chan).t = "LoadPattern"
    /\ ValidPattern(ctx, ctx.pattern_id)

\* the file LoadPattern names is missing or is no SavedPattern
C25_Fails ==
    \/ Head(chan).a >= Len(files)
    \/ files[Head(chan).a + 1].content.division \notin DivisionNames

\* C25: a LoadPattern that fails (file missing or not parseable) leaves the
\* Context as it was, last_cmd apart; one that succeeds replaces the
\* tracks, choke groups and division of the current pattern by those of the
\* file and nothing else: the pattern's name, pattern_id, queued_pattern_id,
\* tempo, playing and every other pattern are as before.
C25_LoadFrame ==
    [][C25_Step =>
        IF C25_Fails
        THEN ctx' = [ctx EXCEPT !.last_cmd = Head(chan)]
        ELSE LET saved == files[Head(chan).a + 1].content
                 new   == CurPattern(ctx')
             IN  /\ [ctx' EXCEPT !.patterns[ctx.pattern_id + 1] = CurPattern(ctx)]
                        = [ctx EXCEPT !.last_cmd = Head(chan)]
                 /\ new.name = CurPattern(ctx).name
                 /\ new.choke_grps = saved.choke_grps
                 /\ DivisionName(new.division) = saved.division
                 /\ Len(new.tracks) = Len(saved.tracks)
                 /\ \A j \in 1..Len(new.tracks) :
                       /\ new.tracks[j].slots = saved.tracks[j].slots
                       /\ new.tracks[j].sample_path = saved.tracks[j].sample_path]_vars

\* the saved file was loaded into the second of two patterns, a clone with
\* zero velocities, and then the foreign file was named: the clone has the
\* velocities of the saved file, sinks of its own and its own name, and the
\* first pattern is there as well
C25_LoadedThenRefused ==
    /\ ev.op = "cmd" /\ ~ev.panic
    /\ ctx.last_cmd = Cmd("LoadPattern", 0, 0, 0, "")
    /\ ev.prev = "LoadPattern"
    /\ Len(ctx.patterns) = 2
    /\ ctx.pattern_id = 1
    /\ ctx.patterns[2].name = 2
    /\ ctx.patterns[2].tracks[1].slots[1] = 127
    /\ ctx.patterns[2].tracks[1].sink # ctx.patterns[1].tracks[1].sink

----------------------------------------------------------------------------
\* a dispatcher step that applies SetDivision while pattern_id is valid
C24_Step ==
    /\ DispatchStep
    /\ Head(chan).t = "SetDivision"
    /\ ValidPattern(ctx, ctx.pattern_id)

\* C24: the division of every pattern is always one of 1, 2, 3, 4, 6, 8,
\* 12, 16, 24, 32; SetDivision changes only the current pattern's division;
\* and a SetDivision request whose integer is none of these leaves the
\* division as it was.
C24_DivisionKept ==
    /\ [](\A i \in 1..Len(ctx.patterns) :
            ctx.patterns[i].division \in {1, 2, 3, 4, 6, 8, 12, 16, 24, 32})
    /\ [][C24_Step =>
            /\ [ctx' EXCEPT !.patterns[ctx.pattern_id + 1].division =
                                CurPattern(ctx).division]
                  = [ctx EXCEPT !.last_cmd = Head(chan)]
            /\ Head(chan).b \notin {1, 2, 3, 4, 6, 8, 12, 16, 24, 32} =>
                  CurPattern(ctx').division = CurPattern(ctx).division]_vars

----------------------------------------------------------------------------
\* tx_state ran to its end: the last step of a scheduler iteration
TxStateStep == seq.pc = "tx" /\ seq'.pc = "read"

\* the number of SeqStates in a channel
SeqStatesIn(q) == Cardinality({j \in 1..Len(q) : q[j].k = "SeqState"})

\* C26: every scheduler iteration, playing or stopped, ends with tx_state,
\* which sends exactly one SeqState to each endpoint whose receiver is
\* held and leaves the others alone, a dropped receiver before it in the
\* list or not; no other step sends a SeqState; and tx_state can run
\* whatever the consumers have or have not received (as long as the
\* channels of the model have room).
C26_OnePerIteration ==
    /\ []((seq.pc = "tx" /\ mutex = "free" /\ ValidPattern(ctx, ctx.pattern_id)
            /\ \A i \in DOMAIN state_rx :
                  state_rx[i].open => Len(state_rx[i].inbox) < MaxInbox)
          => ENABLED TxState)
    /\ [][ /\ (seq.pc # "read" /\ seq'.pc = "read") => seq.pc = "tx"
           /\ TxStateStep =>
                /\ DOMAIN state_rx' = DOMAIN state_rx
                /\ \A i \in DOMAIN state_rx :
                      IF state_rx[i].open
                      THEN /\ state_rx'[i].open
                           /\ Len(state_rx'[i].inbox) = Len(state_rx[i].inbox) + 1
                           /\ SubSeq(state_rx'[i].inbox, 1, Len(state_rx[i].inbox))
                                 = state_rx[i].inbox
                           /\ state_rx'[i].inbox[Len(state_rx'[i].inbox)].k = "SeqState"
                      ELSE state_rx'[i] = state_rx[i]
           /\ ~TxStateStep =>
                \A i \in DOMAIN state_rx :
                    SeqStatesIn(state_rx'[i].inbox) <= SeqStatesIn(state_rx[i].inbox)
         ]_vars

\* tx_state has just sent to the second endpoint, whose consumer had not
\* received the snapshot before, while the first consumer had dropped its
\* receiver; one snapshot was made while playing, the other while stopped
C26_SentPastDropped ==
    /\ ev.op = "tx" /\ ~ev.panic
    /\ Len(state_rx) = 2
    /\ ~state_rx[1].open
    /\ state_rx[2].open
    /\ Len(state_rx[2].inbox) = 2
    /\ state_rx[2].inbox[1].k = "SeqState" /\ state_rx[2].inbox[2].k = "SeqState"
    /\ state_rx[2].inbox[1].playing /\ ~state_rx[2].inbox[2].playing

----------------------------------------------------------------------------
\* m is the projection of the Context c and the latency l
C27_ProjectionOf(m, c, l) ==
    /\ m.tempo = c.tempo
    /\ m.playing = c.playing
    /\ m.pattern_id = c.pattern_id
    /\ m.pattern_len = Len(c.patterns)
    /\ m.queued_pattern_id = c.queued_pattern_id
    /\ m.default_len = c.default_len
    /\ m.last_cmd = c.last_cmd
    /\ m.latency = l
    /\ m.division = c.patterns[c.pattern_id + 1].division
    /\ m.pattern_name = c.patterns[c.pattern_id + 1].name
    /\ Len(m.trks) = Len(c.patterns[c.pattern_id + 1].tracks)
    /\ \A j \in 1..Len(m.trks) :
        LET t == c.patterns[c.pattern_id + 1].tracks[j]
        IN  /\ m.trks[j].slots = t.slots
            /\ m.trks[j].idx = t.idx
            /\ m.trks[j].len = t.len
            /\ m.trks[j].name = t.name
            /\ m.trks[j].sample_path = t.sample_path

\* C27: every SeqState put into a channel is the projection of the Context
\* of the state in which tx_state runs, a state that was reached (no field
\* is of another state), and a channel is a queue: what is sent goes to its
\* end, what is received comes from its front, so each consumer receives
\* the snapshots in the order the scheduler made them.
C27_ConsistentInOrder ==
    [][ /\ TxStateStep =>
            /\ ctx' = ctx
            /\ \A i \in DOMAIN state_rx :
                  state_rx[i].open =>
                    C27_ProjectionOf(state_rx'[i].inbox[Len(state_rx'[i].inbox)],
                                     ctx, seq.latency)
        /\ \A i \in DOMAIN state_rx :
            LET q == state_rx[i].inbox
                r == state_rx'[i].inbox
            IN  \/ r = q
                \/ q # <<>> /\ r = Tail(q)
                \/ ~state_rx'[i].open /\ r = <<>>
                \/ Len(r) = Len(q) + 1 /\ SubSeq(r, 1, Len(q)) = q
      ]_vars

\* a consumer has two snapshots waiting: the older one made before the
\* last command was applied, the newer one after it
C27_TwoSnapshotsWaiting ==
    \E i \in DOMAIN state_rx :
        /\ state_rx[i].open
        /\ Len(state_rx[i].inbox) = 2
        /\ state_rx[i].inbox[1].k = "SeqState" /\ state_rx[i].inbox[2].k = "SeqState"
        /\ state_rx[i].inbox[1].last_cmd = Unspecified
        /\ state_rx[i].inbox[2].last_cmd = ctx.last_cmd
        /\ ctx.last_cmd.t = "SetDivision"
        /\ state_rx[i].inbox[1].division # state_rx[i].inbox[2].division

----------------------------------------------------------------------------
\* the first half of the closure of a tick, run to its end
TickBeginStep == seq.pc = "tick" /\ seq'.pc = "tickend"

\* C31: on a beat tick every track of the current pattern advances idx to
\* (idx + 1) mod len, whatever its velocity and the lengths of the other
\* tracks (from 0 when this tick has just switched to the pattern and reset
\* its playheads); on a playing pulse that is no beat tick no playhead
\* changes; the tracks of the other patterns never advance, and the second
\* half of the closure moves no playhead.
C31_PlayheadsAdvance ==
    [][ /\ TickBeginStep =>
            LET switch == seq.pulse_idx = 0 /\ ctx.queued_pattern_id # ctx.pattern_id
                k      == ctx'.pattern_id + 1
                old    == ctx.patterns[k]
                new    == ctx'.patterns[k]
            IN  /\ DOMAIN ctx'.patterns = DOMAIN ctx.patterns
                /\ \A i \in DOMAIN ctx.patterns :
                      i # k => ctx'.patterns[i] = ctx.patterns[i]
                /\ Len(new.tracks) = Len(old.tracks)
                /\ \A j \in 1..Len(old.tracks) :
                      new.tracks[j].idx =
                        IF seq'.beat
                        THEN ((IF switch THEN 0 ELSE old.tracks[j].idx) + 1)
                                % old.tracks[j].len
                        ELSE old.tracks[j].idx
        /\ TickEndStep => ctx' = ctx
      ]_vars

\* a beat tick away from pulse 0 has brought the playhead of a track of
\* length 3 back to 0 while the one of a track of length 8 stands at 3
C31_ShortTrackWrapped ==
    /\ seq.pc = "tickend" /\ seq.beat
    /\ seq.pulse_idx > 0
    /\ NumTracks(ctx) = 3
    /\ CurPattern(ctx).tracks[1].len = 3 /\ CurPattern(ctx).tracks[1].idx = 0
    /\ CurPattern(ctx).tracks[3].len = 8 /\ CurPattern(ctx).tracks[3].idx = 3

----------------------------------------------------------------------------
\* C32: on a beat tick a sample is enqueued on a track's sink iff the slot
\* at the track's playhead, before the advance, has velocity > 0, and the
\* triggered tracks are exactly those; a track whose slot is 0 enqueues
\* nothing, and the choke loop touches the sink of a track only when
\* another track, one that triggered, shares a choke group with it.  (One
\* enqueue per non-zero slot visited: the count over k beat ticks follows.)
C32_TriggerIffVelocity ==
    [][ /\ (TickBeginStep /\ seq'.beat) =>
            LET switch == seq.pulse_idx = 0 /\ ctx.queued_pattern_id # ctx.pattern_id
                old    == ctx.patterns[ctx'.pattern_id + 1]
                aged   == Aged(sinks)
            IN  \A j \in 1..Len(old.tracks) :
                    LET t   == old.tracks[j]
                        vel == t.slots[(IF switch THEN 0 ELSE t.idx) + 1]
                        q   == sinks'[t.sink]
                    IN  /\ (j - 1 \in Range(seq'.triggered)) <=> (vel > 0)
                        /\ IF vel > 0
                           THEN q # <<>> /\ q[Len(q)] = Sound(t.sample, vel)
                           ELSE q = aged[t.sink]
        /\ (TickBeginStep /\ ~seq'.beat) => seq'.triggered = <<>>
        /\ TickEndStep =>
            \A j \in 1..NumTracks(ctx) :
                LET sk == CurPattern(ctx).tracks[j].sink
                IN  sinks'[sk] # sinks[sk] =>
                        \E x \in Range(seq.triggered) :
                            x # j - 1 /\ SharesGroup(CurPattern(ctx), x, j - 1)
      ]_vars

\* on a beat tick track 1 has triggered and track 0, whose slot is 0, has
\* not: its sink holds nothing fresh
C32_OneOfTwoTriggered ==
    /\ seq.pc = "tickend" /\ seq.beat
    /\ seq.triggered = <<1>>
    /\ ~HasFresh(sinks[CurPattern(ctx).tracks[1].sink])
    /\ HasFresh(sinks[CurPattern(ctx).tracks[2].sink])

----------------------------------------------------------------------------
\* the number of clock bytes (0xF8) in a log
ClocksIn(log) == Cardinality({i \in 1..Len(log) : log[i] = E("midi", MIDI_CLOCK)})

\* C33: the closure of every playing pulse, beat tick or not, sends exactly
\* one clock byte 0xF8 when there is a MIDI connection and none when there
\* is not, and moves pulse_idx on by one (mod 96); nothing else sends a
\* clock byte.  (So 96 clock bytes go with the 96 pulses of a bar and
\* 96 / division with the pulses from one beat tick to the next.)
C33_OneClockPerPulse ==
    [][ /\ TickEndStep =>
            /\ ClocksIn(ev'.log) - ClocksIn(ev.log) = (IF ctx.midi_conn THEN 1 ELSE 0)
            /\ seq'.pulse_idx = (seq.pulse_idx + 1) % PPB
        /\ (~TickEndStep /\ ev' # ev) => ClocksIn(ev'.log) = 0
        /\ TickBeginStep => ClocksIn(ev'.log) = 0
      ]_vars

\* pulse 1, which is no beat tick, has been played with a MIDI connection:
\* the closure did nothing but send the clock byte
C33_ClockOffBeat ==
    /\ seq.pc = "latency"
    /\ seq.pulse_idx = 2
    /\ ctx.midi_conn
    /\ ev.op = "tick"
    /\ ev.log = <<E("midi", MIDI_CLOCK)>>

----------------------------------------------------------------------------
\* C34: every sink holds at most one queued item, at the end of every
\* critical section and within the tick's as well; and what a trigger (of
\* the tick's trigger loop or of PlaySound) leaves in the track's sink is
\* the new sound alone: the newest wins.
C34_AtMostOneQueued ==
    /\ [](\A s \in DOMAIN sinks : Len(sinks[s]) <= 1)
    /\ [][ /\ (TickBeginStep /\ seq'.beat) =>
                \A k \in 1..Len(seq'.triggered) :
                    LET t == CurPattern(ctx').tracks[seq'.triggered[k] + 1]
                    IN  /\ Len(sinks'[t.sink]) = 1
                        /\ sinks'[t.sink][1].fresh
                        /\ sinks'[t.sink][1].sample = t.sample
           /\ C23_Step =>
                LET u == CurPattern(ctx).tracks[Head(chan).a + 1]
                IN  sinks'[u.sink] = <<Sound(u.sample, Head(chan).b)>>
         ]_vars

\* a beat tick has triggered a track whose sink still held the sound of
\* PlaySound: the sink holds one sound, the tick's
C34_TickReplacedAudition ==
    /\ seq.pc = "tickend" /\ seq.beat
    /\ ctx.last_cmd = Cmd("PlaySound", 1, 90, 0, "")
    /\ 1 \in Range(seq.triggered)
    /\ ev.prev = "-"
    /\ sinks[2] = <<Sound("kit/hat_closed.wav", 127)>>

\* C35: the snapshot broadcast at the end of a playing iteration describes
\* the Context as the tick's critical section left it: between the end of
\* the tick and the broadcast of the snapshot no step changes what the
\* snapshot shows of the Context (the record of the last command apart).
C35_SnapshotOfTick ==
    [][ (seq.playing /\ seq.pc \in {"latency", "tx"} /\
         ValidPattern(ctx, ctx.pattern_id) /\ ValidPattern(ctx', ctx'.pattern_id))
        => [SeqState(ctx', 0) EXCEPT !.last_cmd = Unspecified] =
           [SeqState(ctx, 0) EXCEPT !.last_cmd = Unspecified] ]_vars

\* C36: the sleep that ends a scheduler iteration is pulse_interval -
\* min(pulse_interval, latency) for the pulse_interval and the latency of
\* that iteration and so lies between 0 and the pulse_interval, in playing
\* and in stopped iterations alike.
C36_SleepWithinPulse ==
    [][ TxStateStep =>
            /\ seq.sleep_interval =
                   ctx.pulse_interval - Min(ctx.pulse_interval, seq.latency)
            /\ 0 <= seq.sleep_interval
            /\ seq.sleep_interval <= ctx.pulse_interval ]_vars

----------------------------------------------------------------------------
(* Pattern::is_trk_choked over choke groups built with ChokeGrp::new: any  *)
(* Vec<usize>, repeated ids included                                       *)

MaxTrackId == 2
MaxGrpLen == 2
MaxGrps == 2
MaxTriggered == 2

\* the vectors of track ids of at most n elements
IdVecs(n) == UNION {[1..k -> 0..MaxTrackId] : k \in 0..n}

\* the vectors of at most MaxGrps choke groups
ChokeGrpVecs == UNION {[1..k -> {Tuple(g) : g \in IdVecs(MaxGrpLen)}] : k \in 0..MaxGrps}

\* the setup with any choke groups in the pattern
InitChoke ==
    /\ \E gs \in ChokeGrpVecs :
        ctx = [patterns |-> <<[SetupPattern EXCEPT !.choke_grps = Tuple(gs)]>>,
               pattern_id |-> 0,
               queued_pattern_id |-> 0,
               default_len |-> DEFAULT_LEN,
               tempo |-> DEFAULT_TEMPO,
               pulse_interval |-> PulseInterval(DEFAULT_TEMPO),
               playing |-> FALSE,
               last_cmd |-> Unspecified,
               midi_conn |-> FALSE]
    /\ sinks = << <<>>, <<>> >>
    /\ seq = [pulse_idx |-> 0, latency |-> 0, sleep_interval |-> INIT_SLEEP,
              pc |-> "read", playing |-> FALSE, triggered |-> <<>>, beat |-> FALSE]
    /\ chan = <<>>
    /\ mutex = "free"
    /\ files = <<>>
    /\ ev = Event("new", <<>>, FALSE)
    /\ sent = 0
    /\ state_rx = <<>>

\* a call of Pattern::is_trk_choked(triggered_ids, track_id) on the current
\* pattern; the event records track_id and the answer (1 for true)
IsTrkChoked ==
    \E trig \in IdVecs(MaxTriggered), track_id \in 0..MaxTrackId :
        /\ seq' = [seq EXCEPT !.triggered = Tuple(trig)]
        /\ ev' = Event("is_trk_choked",
                       <<E("track_id", track_id),
                         E("choked", IF Pattern_is_trk_choked(CurPattern(ctx), Tuple(trig),
                                                              track_id)
                                     THEN 1 ELSE 0)>>,
                       FALSE)
        /\ UNCHANGED <<ctx, sinks, chan, mutex, files, sent, state_rx>>

NextChoke == IsTrkChoked

SpecChoke == InitChoke /\ [][NextChoke]_vars

\* C37: is_trk_choked(triggered_ids, id) is true iff some triggered id other
\* than id is in a choke group that contains id too; so a track is never
\* choked by its own trigger alone, and a track in no group is never choked.
C37_ChokedIffSharedGroup ==
    ev.op = "is_trk_choked" =>
        LET id   == ev.log[1].t
            trig == seq.triggered
            gs   == CurPattern(ctx).choke_grps
        IN  (ev.log[2].t = 1) <=>
                \E k \in 1..Len(trig), j \in 1..Len(gs) :
                    /\ trig[k] # id
                    /\ trig[k] \in Range(gs[j])
                    /\ id \in Range(gs[j])

\* track 1 is the only triggered member of the group <<0, 1>> and was
\* asked about: not choked
C37_OwnTriggerOnly ==
    /\ ev.op = "is_trk_choked"
    /\ CurPattern(ctx).choke_grps = << <<0, 1>> >>
    /\ seq.triggered = <<1>>
    /\ ev.log[1].t = 1
    /\ ev.log[2].t = 0

\* a dispatch of RemovePattern(idx) with idx the index of a pattern, which
\* is not the only one
C38_Step ==
    /\ DispatchStep
    /\ Head(chan).t = "RemovePattern"
    /\ Head(chan).a < NumPatterns(ctx)
    /\ NumPatterns(ctx) >= 2

\* C38: queued_pattern_id < patterns.len() in every reachable state; in
\* particular a RemovePattern of an existing pattern, applied where
\* queued_pattern_id is the index of a pattern, leaves it the index of a
\* pattern.
C38_QueuedInRange ==
    [][ (C38_Step /\ ctx.queued_pattern_id < NumPatterns(ctx))
        => ctx'.queued_pattern_id < NumPatterns(ctx') ]_vars

\* a dispatch of RemovePattern(i) with i the index of a pattern other than
\* the current one
C39_Step ==
    /\ DispatchStep
    /\ Head(chan).t = "RemovePattern"
    /\ Head(chan).a < NumPatterns(ctx)
    /\ ValidPattern(ctx, ctx.pattern_id)
    /\ Head(chan).a # ctx.pattern_id

\* C39: RemovePattern(i) with a valid i other than pattern_id keeps the
\* same pattern current: pattern_id is one less when i < pattern_id and
\* unchanged when i > pattern_id, and patterns[pattern_id] is the pattern
\* it was (tracks, slots, name).
C39_CurrentPatternKept ==
    [][ C39_Step =>
            /\ ~ev'.panic
            /\ ctx'.pattern_id = IF Head(chan).a < ctx.pattern_id
                                 THEN ctx.pattern_id - 1 ELSE ctx.pattern_id
            /\ ValidPattern(ctx', ctx'.pattern_id)
            /\ CurPattern(ctx') = CurPattern(ctx) ]_vars

\* RemovePattern(0) has been applied where the pattern added before it was
\* the current one: that pattern is current at index 0
C39_RemovedBelowCurrent ==
    /\ ev.op = "cmd" /\ ~ev.panic /\ ev.prev = "AddPattern"
    /\ ctx.last_cmd = Cmd("RemovePattern", 0, 0, 0, "")
    /\ ctx.pattern_id = 0
    /\ NumPatterns(ctx) = 1
    /\ CurPattern(ctx).name = 2

----------------------------------------------------------------------------
(* The threads under fair scheduling.  The scheduler thread runs whenever  *)
(* it can (between its critical sections only the dispatcher holds the     *)
(* mutex, and releases it within the step); the dispatcher thread has to   *)
(* acquire a mutex that the scheduler takes again and again, so its steps  *)
(* are fair in the strong sense: a lock that is free infinitely often is   *)
(* eventually acquired.  Controllers send when they like.                  *)

MaxFairCmds == 2
MaxFairQueue == 2

\* commands whose arguments are valid in the setup
FairCommands ==
    { Cmd("PlaySequencer", 0, 0, 0, ""), Cmd("StopSequencer", 0, 0, 0, ""),
      Cmd("RemovePattern", 0, 0, 0, "") }

\* run_command_loop on the commands of FairCommands
Dispatcher ==
    \/ CmdPlaySequencer
    \/ CmdStopSequencer
    \/ CmdRemovePattern

NextFair ==
    \/ SendUpTo(FairCommands, MaxFairCmds, MaxFairQueue)
    \/ Dispatcher
    \/ Scheduler

SpecFair ==
    /\ InitMidi
    /\ [][NextFair]_vars
    /\ WF_vars(Scheduler)
    /\ SF_vars(Dispatcher)

\* C40: under fair scheduling and with commands of valid arguments, every
\* command sent on the command channel is eventually applied (a channel
\* holding n commands comes to hold fewer) and the scheduler completes
\* iterations again and again (it reaches tx_state infinitely often).
C40_NoStarvation ==
    /\ \A n \in 1..MaxFairQueue : (Len(chan) = n) ~> (Len(chan) < n)
    /\ []<>(seq.pc = "tx")

====
